---------------------------- MODULE Spec2Model ----------------------------
(***************************************************************************)
(* Intent-gated tool mediation layer of Roo-Code: the hook registry, the   *)
(* security pre-hook (ToolSecurityMiddleware), the intent context loader,  *)
(* the file-hash tracker, the trace post-hook and the trace ledger.        *)
(*                                                                         *)
(* Strings whose characters matter (paths, scope patterns) are sequences   *)
(* of one-character strings; identifiers are TLA+ strings.                 *)
(***************************************************************************)
EXTENDS Integers, Sequences, FiniteSets, TLC

\* ------------------------------------------------------------------ bounds
MaxLedger == 2      \* appends to the ledger file the model follows
MaxMtime  == 2      \* modification times of .intentignore
MaxHooks  == 2      \* hooks per list in the registry specification

\* --------------------------------------------------------------- universes
None == "undefined"

IntentIds == {"INT-1", "INT-9"}
Workspace == "ws"
TaskId    == "task-1"

PathSrc   == <<"s", "/", "a">>
PathDocs  == <<"d", "/", "a">>
Paths     == {PathSrc, PathDocs}
\* File contents are sequences of characters too; a word counts as one.
V1        == <<"v1">>
V2        == <<"v2">>
Contents  == {V1, V2}

SafeTools        == {"read_file"}
DestructiveTools == {"write_to_file", "execute_command", "edit_file"}
Tools            == SafeTools \cup DestructiveTools \cup {"select_active_intent"}
\* A tool that the classification table does not name.
UnknownTool      == "custom_tool"

MutationClasses == {"AST_REFACTOR", "INTENT_EVOLUTION"}

\* ------------------------------------------------------- string utilities
IsPrefix(s, t) == Len(s) <= Len(t) /\ SubSeq(t, 1, Len(s)) = s

EndsWith(s, suf) ==
    Len(suf) <= Len(s) /\ SubSeq(s, Len(s) - Len(suf) + 1, Len(s)) = suf

\* String.prototype.replace(/\\/g, "/")
SlashNormalize(s) == [i \in 1..Len(s) |-> IF s[i] = "\\" THEN "/" ELSE s[i]]

Whitespace == {" ", "\n"}

RECURSIVE TrimLeft(_)
TrimLeft(s) == IF s # <<>> /\ Head(s) \in Whitespace THEN TrimLeft(Tail(s)) ELSE s

RECURSIVE TrimRight(_)
TrimRight(s) ==
    IF s # <<>> /\ s[Len(s)] \in Whitespace THEN TrimRight(SubSeq(s, 1, Len(s) - 1)) ELSE s

\* String.prototype.trim()
Trim(s) == TrimRight(TrimLeft(s))

\* ------------------------------------------------------------ content hash
\* generateContentHash: SHA-256 of the content, taken as collision free.
generateContentHash(content) == <<"sha256", content>>


\* ------------------------------------------------------------------- paths
\* A parameter path that leaves and re-enters the tree: "s/../d/a".
PathEscape == <<"s", "/", "..", "/", "d", "/", "a">>
ParamPaths == Paths \cup {PathEscape}

RECURSIVE SplitSlash(_, _, _)
\* s.split("/"): acc holds the finished segments, cur the open one.
SplitSlash(s, acc, cur) ==
    IF s = <<>> THEN Append(acc, cur)
    ELSE IF Head(s) = "/" THEN SplitSlash(Tail(s), Append(acc, cur), <<>>)
    ELSE SplitSlash(Tail(s), acc, Append(cur, Head(s)))

RECURSIVE ResolveSegments(_, _)
\* path.resolve's normalisation: "." dropped, ".." pops the last segment.
ResolveSegments(segs, out) ==
    IF segs = <<>> THEN out
    ELSE LET g == Head(segs) IN
         IF g = <<>> \/ g = <<".">> THEN ResolveSegments(Tail(segs), out)
         ELSE IF g = <<"..">>
              THEN ResolveSegments(Tail(segs),
                       IF out = <<>> THEN out ELSE SubSeq(out, 1, Len(out) - 1))
              ELSE ResolveSegments(Tail(segs), Append(out, g))

RECURSIVE JoinSlash(_)
JoinSlash(segs) ==
    IF segs = <<>> THEN <<>>
    ELSE IF Len(segs) = 1 THEN Head(segs)
    ELSE Head(segs) \o <<"/">> \o JoinSlash(Tail(segs))

\* toRelativePath(path.resolve(task.cwd, params.path), workspaceRoot), the task
\* working in the workspace root: the normalised workspace-relative path.
toRelativePath(p) == JoinSlash(ResolveSegments(SplitSlash(p, <<>>, <<>>), <<>>))

\* ------------------------------------------------- .intentignore and cache
\* A line of .intentignore is a sequence of characters in which an intent id
\* counts as one character.
IgnoreRaws ==
    { <<>>,
      << <<"INT-9">> >>,
      << <<"#", "INT-9">>, <<>>, <<" ", "INT-1", " ">> >> }

\* The three cache variables are assigned together: all unset, or all set.
NoCache == [set |-> FALSE, workspace |-> None, mtimeMs |-> 0, entries |-> <<>>]

\* raw.split(/\r?\n/).map(trim).filter(nonempty and not "#"-prefixed)
ParseIntentIgnore(raw) ==
    SelectSeq([i \in 1..Len(raw) |-> Trim(raw[i])],
              LAMBDA line : Len(line) > 0 /\ Head(line) # "#")

\* readIntentIgnoreFile with a cache that is keyed by the workspace alone.
readIntentIgnoreFileNoMtime(workspaceRoot, file, cache, fault) ==
    IF ~file.exists \/ fault = "stat"
    THEN [entries |-> <<>>, cache |-> cache, logged |-> file.exists]
    ELSE IF cache.set /\ cache.workspace = workspaceRoot
    THEN [entries |-> cache.entries, cache |-> cache, logged |-> FALSE]
    ELSE IF fault = "read"
    THEN [entries |-> <<>>, cache |-> cache, logged |-> TRUE]
    ELSE LET entries == ParseIntentIgnore(file.raw) IN
         [entries |-> entries, logged |-> FALSE,
          cache   |-> [set |-> TRUE, workspace |-> workspaceRoot,
                       mtimeMs |-> file.mtimeMs, entries |-> entries]]

\* readIntentIgnoreFile caching the lines as read, before they are trimmed
\* and filtered.
readIntentIgnoreFileCachesRaw(workspaceRoot, file, cache, fault) ==
    IF ~file.exists \/ fault = "stat"
    THEN [entries |-> <<>>, cache |-> cache, logged |-> file.exists]
    ELSE IF /\ cache.set
            /\ cache.workspace = workspaceRoot
            /\ cache.mtimeMs = file.mtimeMs
    THEN [entries |-> cache.entries, cache |-> cache, logged |-> FALSE]
    ELSE IF fault = "read"
    THEN [entries |-> <<>>, cache |-> cache, logged |-> TRUE]
    ELSE [entries |-> ParseIntentIgnore(file.raw), logged |-> FALSE,
          cache   |-> [set |-> TRUE, workspace |-> workspaceRoot,
                       mtimeMs |-> file.mtimeMs, entries |-> file.raw]]

\* readIntentIgnoreFile with a cache that is keyed by the mtime alone.
readIntentIgnoreFileAnyRoot(workspaceRoot, file, cache, fault) ==
    IF ~file.exists \/ fault = "stat"
    THEN [entries |-> <<>>, cache |-> cache, logged |-> file.exists]
    ELSE IF cache.set /\ cache.mtimeMs = file.mtimeMs
    THEN [entries |-> cache.entries, cache |-> cache, logged |-> FALSE]
    ELSE IF fault = "read"
    THEN [entries |-> <<>>, cache |-> cache, logged |-> TRUE]
    ELSE LET entries == ParseIntentIgnore(file.raw) IN
         [entries |-> entries, logged |-> FALSE,
          cache   |-> [set |-> TRUE, workspace |-> workspaceRoot,
                       mtimeMs |-> file.mtimeMs, entries |-> entries]]

\* readIntentIgnoreFile: the entries it returns and the cache it leaves.
\* fault: "none", or the step ("stat", "read") that fails with an error other
\* than ENOENT / ENOTDIR; such an error is logged, a missing file is not.
readIntentIgnoreFile(workspaceRoot, file, cache, fault) ==
    IF ~file.exists \/ fault = "stat"
    THEN [entries |-> <<>>, cache |-> cache, logged |-> file.exists]
    ELSE IF /\ cache.set
            /\ cache.workspace = workspaceRoot
            /\ cache.mtimeMs = file.mtimeMs
    THEN [entries |-> cache.entries, cache |-> cache, logged |-> FALSE]
    ELSE IF fault = "read"
    THEN [entries |-> <<>>, cache |-> cache, logged |-> TRUE]
    ELSE LET entries == ParseIntentIgnore(file.raw) IN
         [entries |-> entries, logged |-> FALSE,
          cache   |-> [set |-> TRUE, workspace |-> workspaceRoot,
                       mtimeMs |-> file.mtimeMs, entries |-> entries]]

\* isIntentIgnored, on the entries readIntentIgnoreFile returned.
EntriesInclude(entries, intentId) ==
    IF Len(entries) = 0 THEN FALSE
    ELSE \E i \in 1..Len(entries) : entries[i] = <<intentId>>

\* ------------------------------------------------------------ scope matcher
StripWildcard(pattern) ==
    IF EndsWith(pattern, <<"/", "*", "*">>) THEN SubSeq(pattern, 1, Len(pattern) - 3)
    ELSE IF EndsWith(pattern, <<"/", "*">>) THEN SubSeq(pattern, 1, Len(pattern) - 2)
    ELSE pattern

\* PatternMatches taking the base for a bare prefix, without the separator.
PatternMatchesBarePrefix(normalizedRel, patternRaw) ==
    LET pattern == SlashNormalize(Trim(patternRaw))
        base    == StripWildcard(pattern)
    IN  /\ pattern # <<>>
        /\ base # <<>>
        /\ IsPrefix(base, normalizedRel)

\* One turn of the loop of isPathWithinOwnedScope: the pattern is trimmed and
\* normalised, a wildcard suffix is stripped, an empty pattern or base skipped.
PatternMatches(normalizedRel, patternRaw) ==
    LET pattern == SlashNormalize(Trim(patternRaw))
        base    == StripWildcard(pattern)
    IN  /\ pattern # <<>>
        /\ base # <<>>
        /\ \/ normalizedRel = base
           \/ IsPrefix(IF EndsWith(base, <<"/">>) THEN base ELSE base \o <<"/">>,
                       normalizedRel)

isPathWithinOwnedScope(relPath, ownedScope) ==
    \E i \in 1..Len(ownedScope) : PatternMatches(SlashNormalize(relPath), ownedScope[i])

\* ------------------------------------------------------ intent manifest
ScopeSrc == <<"s", "/", "*", "*">>

\* owned_scope of a manifest entry: absent, one string, or a list.
NoScope       == [t |-> "absent", v |-> <<>>]
ScopeString(p) == [t |-> "string", v |-> <<p>>]
ScopeList(ps)  == [t |-> "array", v |-> ps]

Entry(id, intent_id, scope) == [id |-> id, intent_id |-> intent_id, owned_scope |-> scope]
NoEntry == Entry(None, None, NoScope)

\* Parsed active_intents.yaml documents; shape "missing" is a missing file.
MissingManifest == [shape |-> "missing", intents |-> <<>>]
ManifestList ==
    [shape |-> "list",
     intents |-> << Entry("INT-1", None, ScopeList(<<ScopeSrc>>)),
                    Entry("INT-9", None, ScopeList(<<>>)) >>]
ManifestObject ==
    [shape |-> "object",
     intents |-> << Entry(None, "INT-1", ScopeString(ScopeSrc)),
                    Entry("INT-9", None, NoScope) >>]
ManifestDocs == {MissingManifest, ManifestList, ManifestObject}

\* A manifest whose one entry carries both keys: id INT-9, intent_id INT-1.
ManifestAliased ==
    [shape |-> "list",
     intents |-> << Entry("INT-9", "INT-1", ScopeList(<<ScopeSrc>>)) >>]

\* findIntentEntry matching an entry on either of its keys.
findIntentEntryAnyKey(doc, intentId) ==
    IF doc.shape = "missing" THEN NoEntry
    ELSE LET hit == { i \in 1..Len(doc.intents) :
                        \/ doc.intents[i].id = intentId
                        \/ doc.intents[i].intent_id = intentId }
         IN  IF hit = {} THEN NoEntry
             ELSE doc.intents[CHOOSE i \in hit : \A j \in hit : i <= j]

\* findIntentEntry: the first entry whose id (or, without id, intent_id) is
\* intentId; NoEntry when there is none.
findIntentEntry(doc, intentId) ==
    IF doc.shape = "missing" THEN NoEntry
    ELSE LET hit == { i \in 1..Len(doc.intents) :
                        LET e  == doc.intents[i]
                            id == IF e.id # None THEN e.id ELSE e.intent_id
                        IN  id = intentId }
         IN  IF hit = {} THEN NoEntry
             ELSE doc.intents[CHOOSE i \in hit : \A j \in hit : i <= j]

NoContext == [found |-> FALSE, intentId |-> None, ownedScope |-> NoScope]

\* loadIntentContext: NoContext, or the context of intentId. doc is what
\* loadYamlFile returned (MissingManifest for a missing or unreadable file).
\* ownedScope: a string becomes a one-element list, a list is kept.
loadIntentContext(workspaceRoot, intentId, doc) ==
    IF workspaceRoot = None \/ intentId = None THEN NoContext
    ELSE LET intent == findIntentEntry(doc, intentId) IN
         IF intent = NoEntry THEN NoContext
         ELSE [found      |-> TRUE,
               intentId   |-> intentId,
               ownedScope |->
                   IF intent.owned_scope.t = "absent" THEN NoScope
                   ELSE ScopeList(intent.owned_scope.v)]

\* --------------------------------------------------- intent context document
\* String.prototype.replaceAll(ch, rep) on a sequence of characters.
RECURSIVE ReplaceAll(_, _, _)
ReplaceAll(s, ch, rep) ==
    IF s = <<>> THEN <<>>
    ELSE (IF Head(s) = ch THEN rep ELSE <<Head(s)>>) \o ReplaceAll(Tail(s), ch, rep)

\* The entity references; the name of an entity counts as one character.
Amp  == <<"&", "amp", ";">>
Lt   == <<"&", "lt", ";">>
Gt   == <<"&", "gt", ";">>
Quot == <<"&", "quot", ";">>
Apos == <<"&", "apos", ";">>

\* An optional string: Absent (undefined) or Some(s).
Absent  == <<>>
Some(s) == <<s>>
Falsy(value) == value = Absent \/ value = Some(<<>>)

\* escapeXml replacing the ampersand after the other characters.
escapeXmlAmpLast(value) ==
    IF Falsy(value) THEN <<>>
    ELSE ReplaceAll(ReplaceAll(ReplaceAll(ReplaceAll(ReplaceAll(value[1],
             "<", Lt), ">", Gt), "\"", Quot), "'", Apos), "&", Amp)

\* escapeXml: "" for an absent or empty value, else the five replacements,
\* the ampersand first.
escapeXml(value) ==
    IF Falsy(value) THEN <<>>
    ELSE ReplaceAll(ReplaceAll(ReplaceAll(ReplaceAll(ReplaceAll(value[1],
             "&", Amp), "<", Lt), ">", Gt), "\"", Quot), "'", Apos)

\* A trace record as buildIntentContextXml reads it: its optional text fields
\* (optional strings) and, for JSON.stringify, its intent id.
Trace(intent_id, summary, text, detail) ==
    [intent_id |-> intent_id, summary |-> summary, text |-> text, detail |-> detail]

\* JSON.stringify of a trace record without text fields.
TraceJson(trace) ==
    <<"{", "\"", "intent_id", "\"", ":", "\"">> \o trace.intent_id \o <<"\"", "}">>

\* trace.summary ?? trace.text ?? trace.detail ?? JSON.stringify(trace)
TraceContent(trace) ==
    IF trace.summary # Absent THEN trace.summary[1]
    ELSE IF trace.text # Absent THEN trace.text[1]
    ELSE IF trace.detail # Absent THEN trace.detail[1]
    ELSE TraceJson(trace)

\* The tags; an element name counts as one character.
OpenTag(name)  == <<"<", name, ">">>
CloseTag(name) == <<"<", "/", name, ">">>
Indent         == <<" ", " ">>

RECURSIVE TraceLines(_)
TraceLines(agentTraces) ==
    IF agentTraces = <<>> THEN <<>>
    ELSE << Indent \o OpenTag("agent_trace")
                   \o escapeXml(Some(TraceContent(Head(agentTraces))))
                   \o CloseTag("agent_trace") >>
         \o TraceLines(Tail(agentTraces))

\* Array.prototype.join("\n")
RECURSIVE JoinLines(_)
JoinLines(lines) ==
    IF lines = <<>> THEN <<>>
    ELSE IF Len(lines) = 1 THEN lines[1]
    ELSE lines[1] \o <<"\n">> \o JoinLines(Tail(lines))

\* buildIntentContextXml: the document, a sequence of characters. An absent or
\* empty constraints or scope has no element.
buildIntentContextXml(intentId, constraints, scope, agentTraces) ==
    JoinLines(
        << <<"<", "intent_context", " ", "id", "=", "\"">> \o escapeXml(Some(intentId))
               \o <<"\"", ">">> >>
        \o (IF Falsy(constraints) THEN <<>>
            ELSE << Indent \o OpenTag("constraints") \o escapeXml(constraints)
                           \o CloseTag("constraints") >>)
        \o (IF Falsy(scope) THEN <<>>
            ELSE << Indent \o OpenTag("scope") \o escapeXml(scope) \o CloseTag("scope") >>)
        \o TraceLines(agentTraces)
        \o << CloseTag("intent_context") >>)

\* -------------------------------------------------- security middleware
NoPath == <<>>

\* buildJsonToolError: the payload, without its message; a falsy intentId or
\* file is left out (None, NoPath).
buildJsonToolError(tool, reason, intentId, file) ==
    [type |-> "tool_error", tool |-> tool, reason |-> reason,
     intent_id |-> intentId, file |-> file]

\* The classification with a default of "safe" for a tool the table lacks.
ClassificationDefaultSafe(toolName) ==
    IF toolName \in DestructiveTools THEN "destructive" ELSE "safe"

\* TOOL_SECURITY_CLASSIFICATION[toolName] ?? "destructive"
Classification(toolName) ==
    IF toolName \in SafeTools THEN "safe"
    ELSE IF toolName \in DestructiveTools THEN "destructive"
    ELSE "destructive"

IgnoreFaults   == {"none", "stat", "read"}
ManifestFaults == {"none", "unreadable", "throws"}
Selections     == {"Approve", "Reject", "dismissed", "throws"}

NoDecision == [allow |-> TRUE, pushed |-> <<>>, cache |-> NoCache, prompted |-> FALSE,
               step |-> "safe", entries |-> <<>>, scope |-> NoScope, reads |-> {},
               load |-> "unread", answer |-> "none", logs |-> {}, found |-> FALSE]

\* Step 1, the .intentignore check: the entries read, the cache left, and
\* whether the active intent is among the entries.
IgnoreStep(intentId, file, cache, fault) ==
    IF intentId = None
    THEN [entries |-> <<>>, cache |-> cache, ignored |-> FALSE, reads |-> {},
          logs |-> {}]
    ELSE LET r == readIntentIgnoreFile(Workspace, file, cache, fault) IN
         [entries |-> r.entries, cache |-> r.cache,
          ignored |-> EntriesInclude(r.entries, intentId), reads |-> {"ignore"},
          logs |-> IF r.logged THEN {"ignore"} ELSE {}]

\* The scope step denying the write when the manifest cannot be loaded.
ScopeStepFailClosed(toolName, params, intentId, doc, fault) ==
    LET applies == /\ toolName = "write_to_file"
                   /\ intentId # None
                   /\ params.path # NoPath
        ctx == IF applies /\ fault = "none"
               THEN loadIntentContext(Workspace, intentId, doc)
               ELSE NoContext
        relToWorkspace == toRelativePath(params.path)
    IN  [scope |-> ctx.ownedScope,
         found |-> ctx.found,
         reads |-> IF applies THEN {"manifest"} ELSE {},
         load  |-> IF applies THEN fault ELSE "unread",
         logs  |-> IF applies /\ fault # "none" THEN {"manifest"} ELSE {},
         file  |-> relToWorkspace,
         violation |-> /\ applies
                       /\ \/ fault # "none"
                          \/ /\ ctx.found
                             /\ ctx.ownedScope.t # "absent"
                             /\ Len(ctx.ownedScope.v) > 0
                             /\ ~isPathWithinOwnedScope(relToWorkspace, ctx.ownedScope.v)]

\* The scope step matching params.path as given, without resolving it.
ScopeStepRawPath(toolName, params, intentId, doc, fault) ==
    LET applies == /\ toolName = "write_to_file"
                   /\ intentId # None
                   /\ params.path # NoPath
        ctx == IF applies /\ fault # "throws"
               THEN loadIntentContext(Workspace, intentId,
                        IF fault = "unreadable" THEN MissingManifest ELSE doc)
               ELSE NoContext
    IN  [scope |-> ctx.ownedScope,
         found |-> ctx.found,
         reads |-> IF applies THEN {"manifest"} ELSE {},
         load  |-> IF applies THEN fault ELSE "unread",
         logs  |-> IF applies /\ fault # "none" THEN {"manifest"} ELSE {},
         file  |-> params.path,
         violation |-> /\ applies
                       /\ ctx.found
                       /\ ctx.ownedScope.t # "absent"
                       /\ Len(ctx.ownedScope.v) > 0
                       /\ ~isPathWithinOwnedScope(params.path, ctx.ownedScope.v)]

\* Step 2, the scope check of write_to_file: the owned scope loaded, the
\* workspace-relative path, and whether the path is outside a non-empty scope.
\* fault: "unreadable" (loadYamlFile gives undefined) or "throws" (the catch).
ScopeStep(toolName, params, intentId, doc, fault) ==
    LET applies == /\ toolName = "write_to_file"
                   /\ intentId # None
                   /\ params.path # NoPath
        ctx == IF applies /\ fault # "throws"
               THEN loadIntentContext(Workspace, intentId,
                        IF fault = "unreadable" THEN MissingManifest ELSE doc)
               ELSE NoContext
        relToWorkspace == toRelativePath(params.path)
    IN  [scope |-> ctx.ownedScope,
         found |-> ctx.found,
         reads |-> IF applies THEN {"manifest"} ELSE {},
         load  |-> IF applies THEN fault ELSE "unread",
         logs  |-> IF applies /\ fault # "none" THEN {"manifest"} ELSE {},
         file  |-> relToWorkspace,
         violation |-> /\ applies
                       /\ ctx.found
                       /\ ctx.ownedScope.t # "absent"
                       /\ Len(ctx.ownedScope.v) > 0
                       /\ ~isPathWithinOwnedScope(relToWorkspace, ctx.ownedScope.v)]

\* The prompt rejecting on the "Reject" button only.
PromptRejectsOnButton(selection) == selection = "Reject"

\* Step 3, the modal prompt: anything but "Approve" rejects; a prompt that
\* throws is caught and allows.
PromptRejects(selection) == selection # "throws" /\ selection # "Approve"

\* enforceToolSecurityPreHook with the scope check ahead of the ignore check.
enforceScopeBeforeIgnore(toolName, params, intentId, file, cache, doc, env) ==
    IF Classification(toolName) = "safe"
    THEN [NoDecision EXCEPT !.cache = cache]
    ELSE
    LET ign == IgnoreStep(intentId, file, cache, env.ignoreFault)
        sc  == ScopeStep(toolName, params, intentId, doc, env.manifestFault)
        base == [NoDecision EXCEPT !.cache = cache, !.reads = sc.reads, !.load = sc.load,
                                   !.scope = sc.scope, !.logs = sc.logs,
                                   !.found = sc.found]
        past == [base EXCEPT !.reads = @ \cup ign.reads, !.cache = ign.cache,
                             !.entries = ign.entries, !.logs = @ \cup ign.logs]
    IN  IF sc.violation
        THEN [base EXCEPT !.allow = FALSE, !.step = "scope",
                 !.pushed = <<buildJsonToolError(toolName, "scope_violation",
                                                 intentId, sc.file)>>]
        ELSE IF ign.ignored
        THEN [past EXCEPT !.allow = FALSE, !.step = "ignore",
                 !.pushed = <<buildJsonToolError(toolName, "intent_ignored", intentId, NoPath)>>]
        ELSE IF PromptRejects(env.selection)
        THEN [past EXCEPT !.allow = FALSE, !.step = "prompt", !.prompted = TRUE,
                 !.answer = env.selection,
                 !.pushed = <<buildJsonToolError(toolName, "user_rejected", intentId, NoPath)>>]
        ELSE [past EXCEPT !.step = "prompt", !.prompted = TRUE, !.answer = env.selection]

\* The three policy steps of a destructive call, on what the ignore step
\* (ign) and the scope step (sc) gave and on the operator's answer: the first
\* denial decides, and a step after a denial has not happened.
PolicySteps(toolName, intentId, ign, sc, selection) ==
    LET base == [NoDecision EXCEPT !.cache = ign.cache, !.entries = ign.entries,
                                   !.reads = ign.reads, !.logs = ign.logs]
        past == [base EXCEPT !.reads = @ \cup sc.reads, !.load = sc.load,
                             !.logs = @ \cup sc.logs, !.found = sc.found,
                             !.scope = sc.scope]
    IN  IF ign.ignored
        THEN [base EXCEPT !.allow = FALSE, !.step = "ignore",
                 !.pushed = <<buildJsonToolError(toolName, "intent_ignored", intentId, NoPath)>>]
        ELSE IF sc.violation
        THEN [past EXCEPT !.allow = FALSE, !.step = "scope",
                 !.pushed = <<buildJsonToolError(toolName, "scope_violation",
                                                 intentId, sc.file)>>]
        ELSE IF PromptRejects(selection)
        THEN [past EXCEPT !.allow = FALSE, !.step = "prompt", !.prompted = TRUE,
                 !.answer = selection,
                 !.pushed = <<buildJsonToolError(toolName, "user_rejected", intentId, NoPath)>>]
        ELSE [past EXCEPT !.step = "prompt", !.prompted = TRUE, !.answer = selection]

\* enforceToolSecurityPreHook on the files as they are now. env gives what the
\* environment answers: ignoreFault, manifestFault, selection. The result
\* carries what was pushed to the result sink, the ignore cache left behind,
\* whether the modal prompt was shown, the step that decided, the ignore
\* entries read and the owned scope the scope step loaded.
enforceToolSecurityPreHook(toolName, params, intentId, file, cache, doc, env) ==
    IF Classification(toolName) = "safe"
    THEN [NoDecision EXCEPT !.cache = cache]
    ELSE PolicySteps(toolName, intentId,
                     IgnoreStep(intentId, file, cache, env.ignoreFault),
                     ScopeStep(toolName, params, intentId, doc, env.manifestFault),
                     env.selection)

\* ------------------------------------------------------------ hook registry
SecurityHook == "tool-security"
TraceHook    == "agent-trace"
OtherPreHooks  == {"pre-a", "pre-b"}
OtherPostHooks == {"post-a"}
PreHookIds   == {SecurityHook} \cup OtherPreHooks
PostHookIds  == {TraceHook} \cup OtherPostHooks

\* What one execution of a pre-hook does: returns {allow, error?} or throws,
\* having pushed `pushed` itself.
HookResult(allow, error, throws, pushed) ==
    [allow |-> allow, error |-> error, throws |-> throws, pushed |-> pushed]

NoError == buildJsonToolError(None, None, None, NoPath)
HookError(h) == buildJsonToolError(None, h, None, NoPath)

\* The behaviours of a hook other than the security hook.
Outcomes == {"allow", "block", "block_error", "throw"}
OtherHookResult(h, outcome) ==
    HookResult(outcome \in {"allow", "throw"},
               IF outcome = "block_error" THEN HookError(h) ELSE NoError,
               outcome = "throw", <<>>)

RECURSIVE RunPreHooksNoStop(_, _, _)
RunPreHooksNoStop(hooks, res, acc) ==
    IF hooks = <<>> THEN acc
    ELSE LET h == Head(hooks)
             r == res[h]
             a == [acc EXCEPT !.ran = Append(@, h), !.pushed = @ \o r.pushed]
         IN  IF r.throws
             THEN RunPreHooksNoStop(Tail(hooks), res, [a EXCEPT !.logged = Append(@, h)])
             ELSE IF r.allow THEN RunPreHooksNoStop(Tail(hooks), res, a)
             ELSE RunPreHooksNoStop(Tail(hooks), res,
                      [a EXCEPT !.ret = FALSE,
                                !.pushed = IF r.error # NoError
                                           THEN Append(@, r.error) ELSE @])

\* executePreHooks with a loop that notes a block and goes on to the next hook.
executePreHooksNoStop(hooks, res) ==
    RunPreHooksNoStop(hooks, res,
        [ret |-> TRUE, ran |-> <<>>, pushed |-> <<>>, logged |-> <<>>])

RECURSIVE RunPreHooksThrowBlocks(_, _, _)
RunPreHooksThrowBlocks(hooks, res, acc) ==
    IF hooks = <<>> THEN [acc EXCEPT !.ret = TRUE]
    ELSE LET h == Head(hooks)
             r == res[h]
             a == [acc EXCEPT !.ran = Append(@, h), !.pushed = @ \o r.pushed]
         IN  IF r.throws
             THEN [a EXCEPT !.ret = FALSE, !.logged = Append(@, h)]
             ELSE IF ~r.allow
             THEN [a EXCEPT !.ret = FALSE,
                            !.pushed = IF r.error # NoError THEN Append(@, r.error) ELSE @]
             ELSE RunPreHooksThrowBlocks(Tail(hooks), res, a)

RECURSIVE RunPreHooks(_, _, _)
\* The loop of executePreHooks over the hooks still to run; acc is the run so far.
RunPreHooks(hooks, res, acc) ==
    IF hooks = <<>> THEN [acc EXCEPT !.ret = TRUE]
    ELSE LET h == Head(hooks)
             r == res[h]
             a == [acc EXCEPT !.ran = Append(@, h), !.pushed = @ \o r.pushed]
         IN  IF r.throws
             THEN RunPreHooks(Tail(hooks), res, [a EXCEPT !.logged = Append(@, h)])
             ELSE IF ~r.allow
             THEN [a EXCEPT !.ret = FALSE,
                            !.pushed = IF r.error # NoError THEN Append(@, r.error) ELSE @]
             ELSE RunPreHooks(Tail(hooks), res, a)

\* A pre-hook run that has not started.
NoRun == [ret |-> TRUE, ran |-> <<>>, pushed |-> <<>>, logged |-> <<>>]

\* executePreHooks with a catch that gives up the call.
executePreHooksThrowBlocks(hooks, res) == RunPreHooksThrowBlocks(hooks, res, NoRun)

\* executePreHooks pushing an error of its own for a denial that carries none.
executePreHooksAlwaysPushes(hooks, res) ==
    LET run == RunPreHooks(hooks, res, NoRun) IN
    IF ~run.ret /\ res[run.ran[Len(run.ran)]].error = NoError
    THEN [run EXCEPT !.pushed = Append(@, HookError(run.ran[Len(run.ran)]))]
    ELSE run

\* executePreHooks returning true after a denial.
executePreHooksReturnsTrue(hooks, res) ==
    [RunPreHooks(hooks, res, NoRun) EXCEPT !.ret = TRUE]

\* executePreHooks: what it returns, the hooks it executed in order, what
\* reached the result sink, and the hooks whose exception console.error logged.
executePreHooks(hooks, res) == RunPreHooks(hooks, res, NoRun)

\* ------------------------------------------------------- trace ledger
ModelId   == "model-x"
Timestamp == "now"

\* getVcsRevision / getVcsBranch: out is what git printed, trimmed; "fail" is
\* no .git directory or a failed git. An empty answer becomes undefined.
GitAnswers(names) == {"fail", ""} \cup names
vcsProbe(out) == IF out = "fail" \/ out = "" THEN None ELSE out

VcsField(revision, branch) == <<[revision |-> revision, branch |-> branch]>>

\* createAgentTraceEntry with ranges.content_hash taken from the file path.
createAgentTraceEntryPathHash(params) ==
    [req_id           |-> params.reqId,
     intent_id        |-> params.intentId,
     file             |-> params.filePath,
     timestamp        |-> Timestamp,
     mutation_class   |-> params.mutationClass,
     content_hash     |-> generateContentHash(params.content),
     model_identifier |-> params.modelIdentifier,
     related          |-> params.relatedReqIds,
     ranges           |-> [content_hash |-> generateContentHash(params.filePath)],
     vcs              |-> IF params.vcsRevision # None /\ params.vcsRevision # ""
                          THEN VcsField(params.vcsRevision,
                                        IF params.vcsBranch = "" THEN None
                                        ELSE params.vcsBranch)
                          ELSE <<>>]

\* createAgentTraceEntry. vcs is absent (<<>>) or one {revision, branch?}.
createAgentTraceEntry(params) ==
    LET contentHash == generateContentHash(params.content) IN
    [req_id           |-> params.reqId,
     intent_id        |-> params.intentId,
     file             |-> params.filePath,
     timestamp        |-> Timestamp,
     mutation_class   |-> params.mutationClass,
     content_hash     |-> contentHash,
     model_identifier |-> params.modelIdentifier,
     related          |-> params.relatedReqIds,
     ranges           |-> [content_hash |-> contentHash],
     vcs              |-> IF params.vcsRevision # None /\ params.vcsRevision # ""
                          THEN VcsField(params.vcsRevision,
                                        IF params.vcsBranch = "" THEN None
                                        ELSE params.vcsBranch)
                          ELSE <<>>]

\* JSON.stringify(entry): the object with the keys whose value is defined.
JsonStringify(entry) ==
    LET keys == {k \in DOMAIN entry :
                    /\ k = "model_identifier" => entry.model_identifier # None
                    /\ k = "vcs" => entry.vcs # <<>>}
    IN  [k \in keys |-> entry[k]]

\* The ledger file is a sequence of tokens: a serialised object, or "\n".
JsonToken(obj) == [t |-> "json", v |-> obj]
Newline        == [t |-> "nl", v |-> [nl |-> "\n"]]

\* appendAgentTrace writing the file anew (fs.writeFile).
appendAgentTraceOverwrite(file, entry) == <<JsonToken(JsonStringify(entry)), Newline>>

\* appendAgentTrace without the line terminator.
appendAgentTraceNoNewline(file, entry) == file \o <<JsonToken(JsonStringify(entry))>>

\* appendAgentTrace: fs.appendFile(traceFilePath, JSON.stringify(entry) + "\n")
appendAgentTrace(file, entry) == file \o <<JsonToken(JsonStringify(entry)), Newline>>

\* The file appendAgentTrace appends to and the file loadIntentContext reads
\* the traces from, as path segments under the workspace root.
TraceFilePath == <<".roo", "agent_trace.jsonl">>
TracesPath    == <<".orchestration", "agent_trace.jsonl">>

\* A JSON Lines file: whether it exists, and its content as tokens. A token
\* that is no JSON text is of kind "text".
MissingTraces == [exists |-> FALSE, tokens |-> <<>>]
Garbage       == [t |-> "text", v |-> [text |-> "{oops"]]

RECURSIVE SplitLines(_, _)
\* raw.split("\n"): the lines of the tokens, cur being the line under way.
SplitLines(tokens, cur) ==
    IF tokens = <<>> THEN <<cur>>
    ELSE IF Head(tokens).t = "nl" THEN <<cur>> \o SplitLines(Tail(tokens), <<>>)
    ELSE SplitLines(Tail(tokens), Append(cur, Head(tokens)))

\* JSON.parse succeeds on a line that is exactly one JSON text.
JsonParses(line) == Len(line) = 1 /\ line[1].t = "json"

\* loadJsonLinesFile: the parsed non-blank lines; a missing file, or a file
\* with a line JSON.parse rejects (the catch, logged), gives [].
loadJsonLinesFile(file) ==
    IF ~file.exists THEN <<>>
    ELSE LET lines == SelectSeq(SplitLines(file.tokens, <<>>),
                                LAMBDA line : Len(line) > 0)
         IN  IF \E i \in 1..Len(lines) : ~JsonParses(lines[i]) THEN <<>>
             ELSE [i \in 1..Len(lines) |-> lines[i][1].v]

\* entry.intent_id ?? entry.intentId
EntryIntentId(entry) ==
    IF "intent_id" \in DOMAIN entry THEN entry.intent_id
    ELSE IF "intentId" \in DOMAIN entry THEN entry.intentId
    ELSE None

\* findAgentTraces: the entries of the intent, in file order.
findAgentTraces(entries, intentId) ==
    SelectSeq(entries, LAMBDA entry : EntryIntentId(entry) = intentId)

\* The agentTraces of the context loadIntentContext returns for an intent it
\* found; file is what is at TracesPath.
loadAgentTraces(intentId, file) ==
    findAgentTraces(loadJsonLinesFile(file), intentId)

\* classifyMutationAST on whole contents. A changed file goes to
\* calculateMetrics, whose calculateStructuralSimilarity reads the undeclared
\* name oldFuncs: a ReferenceError.
NoOld == [ok |-> FALSE, out |-> <<>>]
classifyMutationAST(oldContent, newContent, llmProvidedClass) ==
    IF ~oldContent.ok \/ oldContent.out = <<>> THEN "INTENT_EVOLUTION"
    ELSE IF oldContent.out = newContent THEN "AST_REFACTOR"
    ELSE "ReferenceError"

\* AgentTracePostHook.execute reaching its console.warn: a write_to_file
\* whose parameters carry no intent_id.
AgentTraceWarns(toolName, params) ==
    /\ toolName = "write_to_file"
    /\ (params.intent_id = None \/ params.intent_id = "")

\* AgentTracePostHook.execute tracing every tool that carries an intent_id.
AgentTracePostHookAnyTool(toolName, params, file, env) ==
    IF params.intent_id = None \/ params.intent_id = "" THEN file
    ELSE LET oldContent == IF env.gitShow.ok
                           THEN [ok |-> TRUE, out |-> Trim(env.gitShow.out)]
                           ELSE NoOld
             mutationClass == classifyMutationAST(oldContent, params.content,
                                                  params.mutation_class)
             traceEntry == createAgentTraceEntry(
                 [reqId           |-> TaskId,
                  intentId        |-> params.intent_id,
                  filePath        |-> params.path,
                  content         |-> params.content,
                  mutationClass   |-> mutationClass,
                  modelIdentifier |-> ModelId,
                  relatedReqIds   |-> <<TaskId>>,
                  vcsRevision     |-> vcsProbe(env.revParse),
                  vcsBranch       |-> vcsProbe(env.branch)])
         IN  IF mutationClass = "ReferenceError" \/ env.appendFault THEN file
             ELSE appendAgentTrace(file, traceEntry)

\* AgentTracePostHook.execute tracing a write whatever its intent_id.
AgentTracePostHookAnyIntent(toolName, params, file, env) ==
    IF toolName # "write_to_file" THEN file
    ELSE LET oldContent == IF env.gitShow.ok
                           THEN [ok |-> TRUE, out |-> Trim(env.gitShow.out)]
                           ELSE NoOld
             mutationClass == classifyMutationAST(oldContent, params.content,
                                                  params.mutation_class)
             traceEntry == createAgentTraceEntry(
                 [reqId           |-> TaskId,
                  intentId        |-> params.intent_id,
                  filePath        |-> params.path,
                  content         |-> params.content,
                  mutationClass   |-> mutationClass,
                  modelIdentifier |-> ModelId,
                  relatedReqIds   |-> <<TaskId>>,
                  vcsRevision     |-> vcsProbe(env.revParse),
                  vcsBranch       |-> vcsProbe(env.branch)])
         IN  IF mutationClass = "ReferenceError" \/ env.appendFault THEN file
             ELSE appendAgentTrace(file, traceEntry)

\* AgentTracePostHook.execute: the ledger file it leaves. env: gitShow (the
\* committed version of the file, or a failed git), revParse, branch,
\* appendFault.
AgentTracePostHook(toolName, params, file, env) ==
    IF toolName # "write_to_file" THEN file
    ELSE IF params.intent_id = None \/ params.intent_id = "" THEN file
    ELSE LET oldContent == IF env.gitShow.ok
                           THEN [ok |-> TRUE, out |-> Trim(env.gitShow.out)]
                           ELSE NoOld
             mutationClass == classifyMutationAST(oldContent, params.content,
                                                  params.mutation_class)
             traceEntry == createAgentTraceEntry(
                 [reqId           |-> TaskId,
                  intentId        |-> params.intent_id,
                  filePath        |-> params.path,
                  content         |-> params.content,
                  mutationClass   |-> mutationClass,
                  modelIdentifier |-> ModelId,
                  relatedReqIds   |-> <<TaskId>>,
                  vcsRevision     |-> vcsProbe(env.revParse),
                  vcsBranch       |-> vcsProbe(env.branch)])
         IN  IF mutationClass = "ReferenceError" \/ env.appendFault THEN file
             ELSE appendAgentTrace(file, traceEntry)

\* AgentTracePostHook.execute reaching its own catch: the failure is logged
\* there and the hook returns normally.
AgentTraceCaught(toolName, params, env) ==
    /\ toolName = "write_to_file"
    /\ params.intent_id # None /\ params.intent_id # ""
    /\ \/ env.appendFault
       \/ classifyMutationAST(IF env.gitShow.ok
                               THEN [ok |-> TRUE, out |-> Trim(env.gitShow.out)]
                               ELSE NoOld,
                               params.content, params.mutation_class) = "ReferenceError"

\* A post-hook run that has not started: the hooks executed, the hooks whose
\* exception console.error logged, what was pushed to the tool-result channel
\* and whether an exception left executePostHooks.
NoPostRun == [ran |-> <<>>, logged |-> <<>>, pushed |-> <<>>, raised |-> FALSE]

RECURSIVE RunPostHooksUntilThrow(_, _, _)
RunPostHooksUntilThrow(hooks, throws, acc) ==
    IF hooks = <<>> THEN acc
    ELSE LET h == Head(hooks)
             a == [acc EXCEPT !.ran = Append(@, h)]
         IN  IF h \in throws
             THEN [a EXCEPT !.raised = TRUE]
             ELSE RunPostHooksUntilThrow(Tail(hooks), throws, a)

\* executePostHooks without the try/catch around hook.execute.
executePostHooksUntilThrow(hooks, throws) == RunPostHooksUntilThrow(hooks, throws, NoPostRun)

RECURSIVE RunPostHooks(_, _, _)
\* The loop of executePostHooks over the hooks still to run.
RunPostHooks(hooks, throws, acc) ==
    IF hooks = <<>> THEN acc
    ELSE LET h == Head(hooks)
             a == [acc EXCEPT !.ran = Append(@, h)]
         IN  IF h \in throws
             THEN RunPostHooks(Tail(hooks), throws, [a EXCEPT !.logged = Append(@, h)])
             ELSE RunPostHooks(Tail(hooks), throws, a)

\* executePostHooks; throws is the set of hooks whose execute throws.
executePostHooks(hooks, throws) == RunPostHooks(hooks, throws, NoPostRun)

\* ------------------------------------------------------ file-hash tracker
\* FileHashTracker.fileHashes is a Map: a function on the paths it holds.

\* storeFileHash keeping an earlier hash of the path.
storeFileHashFirstOnly(hashes, filePath, content) ==
    IF filePath \in DOMAIN hashes THEN hashes
    ELSE [p \in DOMAIN hashes \cup {filePath} |->
            IF p = filePath THEN generateContentHash(content) ELSE hashes[p]]

\* storeFileHash: Map.set of the hash of the content, replacing an earlier one.
storeFileHash(hashes, filePath, content) ==
    [p \in DOMAIN hashes \cup {filePath} |->
        IF p = filePath THEN generateContentHash(content) ELSE hashes[p]]

\* isFileUnchanged with the comparison inverted.
isFileUnchangedInverted(hashes, filePath, currentContent) ==
    IF filePath \notin DOMAIN hashes THEN TRUE
    ELSE hashes[filePath] # generateContentHash(currentContent)

\* isFileUnchanged that never reports a change.
isFileUnchangedAlways(hashes, filePath, currentContent) == TRUE

\* isFileUnchanged taking a path without a stored hash for a changed file.
isFileUnchangedNeedsHash(hashes, filePath, currentContent) ==
    /\ filePath \in DOMAIN hashes
    /\ hashes[filePath] = generateContentHash(currentContent)

\* isFileUnchanged: no stored hash counts as unchanged.
isFileUnchanged(hashes, filePath, currentContent) ==
    IF filePath \notin DOMAIN hashes THEN TRUE
    ELSE hashes[filePath] = generateContentHash(currentContent)

\* ------------------------------------------------------------------- state
VARIABLES
    preHooks,        \* HookRegistry.preHooks: hook ids in registration order
    postHooks,       \* HookRegistry.postHooks
    activeIntentId,  \* Task's active intent id (None: unset)
    manifest,        \* .orchestration/active_intents.yaml, parsed
    ignoreFile,      \* .intentignore: exists, raw lines, mtimeMs
    ignoreCache,     \* cachedIntentIgnoreWorkspace / MtimeMs / Entries
    disk,            \* workspace files: a function on the paths that exist
    fileHashes,      \* task.fileHashTracker
    ledger,          \* .roo/agent_trace.jsonl
    sink,            \* what the current tool call pushed to pushToolResult
    call             \* the current (phase # "idle") or last tool call

vars == <<preHooks, postHooks, activeIntentId, manifest, ignoreFile, ignoreCache,
          disk, fileHashes, ledger, sink, call>>

Params(path, content, intent_id, mutation_class, intent_raw) ==
    [path |-> path, content |-> content, intent_id |-> intent_id,
     mutation_class |-> mutation_class, intent_raw |-> intent_raw]
NoParams == Params(NoPath, <<>>, None, None, <<>>)

\* An optional content: <<>> or <<content>>.
DiskAt(p) == IF p \in DOMAIN disk THEN <<disk[p]>> ELSE <<>>
HashAt(p) == IF p \in DOMAIN fileHashes THEN <<fileHashes[p]>> ELSE <<>>

NoCall ==
    [phase    |-> "idle",      \* idle, body, commit, post
     tool     |-> None,
     params   |-> NoParams,
     intent   |-> None,        \* the active intent id the pre-hooks saw
     ret      |-> TRUE,        \* what executePreHooks returned
     ran      |-> <<>>,        \* the pre-hooks executed, in order
     gate     |-> NoDecision,  \* the security hook's decision
     result   |-> "none",      \* of the tool body: none, ok, stale, error
     wrote    |-> FALSE,       \* the body wrote the file
     stored   |-> <<>>,        \* the tracker's hash for the path at the lock check
     seen     |-> <<>>,        \* the content the lock check read
     before   |-> <<>>,        \* the content on disk when the body wrote
     postRan  |-> <<>>,        \* the post-hooks executed, in order
     logged   |-> <<>>,        \* the pre-hooks whose exception the registry logged
     post0    |-> <<>>,        \* the registered post-hooks when they were executed
     postThrew  |-> {},        \* the post-hooks whose execute threw
     postLogged |-> <<>>,      \* the post-hooks whose exception the registry logged
     traceCaught |-> FALSE,    \* the trace post-hook caught a failure of its own
     traceWarned |-> FALSE,    \* the trace post-hook warned of a missing intent_id
     sink0    |-> <<>>,        \* the result sink when the body had finished
     ledger0  |-> 0,           \* length of the ledger when the call began
     pre0     |-> <<>>,        \* the registered pre-hooks when the call began
     res      |-> <<>>,        \* what each registered pre-hook did when executed
     listed   |-> FALSE,       \* .intentignore listed the active intent then
     ignore   |-> "skipped",   \* how the ignore list was read: skipped, missing,
                               \*   fault, stale (a cache hit on other content), current
     declared |-> NoScope,     \* the owned scope the manifest declared then
     needRead |-> {},          \* paths whose write was aborted as stale and that
                               \*   the task has not read since
     old      |-> NoOld,       \* the old content classifyMutationAST was called with
     traceFile |-> MissingTraces, \* the file loadIntentContext read the traces from
     traces   |-> <<>>,        \* the agentTraces of the context handed to the agent
     within   |-> FALSE,       \* what isPathWithinOwnedScope answered
     rendered |-> <<>>,        \* what buildIntentContextXml was called with
     xml      |-> <<>>,        \* the document buildIntentContextXml returned
     root     |-> None,        \* the workspace root isIntentIgnored was called with
     key      |-> "none",      \* the ignore-list cache it found, against that root and
                               \*   the file's mtime: none, unset, root, mtime, hit
     loggers  |-> <<>>,        \* the logAgentTrace calls in flight: where each is,
                               \*   what it read and the entry it builds
     entries0 |-> {}]          \* the entries agent_traces.yaml held at the start

LedgerLines == Cardinality({i \in 1..Len(ledger) : ledger[i].t = "nl"})

MissingIgnore == [exists |-> FALSE, raw |-> <<>>, mtimeMs |-> 0]

\* ------------------------------------------------------------ tool pipeline
\* BaseTool.handle up to the tool body: executePreHooks on the registered
\* pre-hooks. env: the environment's answers to the security hook and the
\* outcome of every other hook.
BeginCall(tool, params, env) ==
    /\ LedgerLines < MaxLedger
    /\ LET d   == enforceToolSecurityPreHook(tool, params, activeIntentId,
                                             ignoreFile, ignoreCache, manifest, env)
           res == [h \in PreHookIds |->
                     IF h = SecurityHook
                     THEN HookResult(d.allow, NoError, FALSE, d.pushed)
                     ELSE OtherHookResult(h, env.outcome[h])]
           run == executePreHooks(preHooks, res)
           secured == \E i \in 1..Len(run.ran) : run.ran[i] = SecurityHook
           parsed  == ParseIntentIgnore(ignoreFile.raw)
           gated   == Classification(tool) # "safe" /\ activeIntentId # None
       IN  /\ ignoreCache' = IF secured THEN d.cache ELSE ignoreCache
           /\ sink' = run.pushed
           /\ call' = [NoCall EXCEPT
                         !.phase = IF run.ret THEN "body" ELSE "idle",
                         !.tool = tool, !.params = params,
                         !.intent = activeIntentId,
                         !.ret = run.ret, !.ran = run.ran, !.logged = run.logged,
                         !.gate = IF secured THEN d ELSE NoDecision,
                         !.ledger0 = Len(ledger),
                         !.pre0 = preHooks,
                         !.res = [i \in 1..Len(preHooks) |-> res[preHooks[i]]],
                         !.listed = /\ gated /\ ignoreFile.exists
                                    /\ EntriesInclude(parsed, activeIntentId),
                         !.ignore =
                             IF ~gated THEN "skipped"
                             ELSE IF ~ignoreFile.exists THEN "missing"
                             ELSE IF env.ignoreFault = "stat" THEN "fault"
                             ELSE IF /\ ignoreCache.set
                                     /\ ignoreCache.workspace = Workspace
                                     /\ ignoreCache.mtimeMs = ignoreFile.mtimeMs
                             THEN IF ignoreCache.entries = parsed
                                  THEN "current" ELSE "stale"
                             ELSE IF env.ignoreFault = "read" THEN "fault"
                             ELSE "current",
                         !.declared = loadIntentContext(Workspace, activeIntentId,
                                                        manifest).ownedScope,
                         !.needRead = call.needRead]
    /\ UNCHANGED <<preHooks, postHooks, activeIntentId, manifest, ignoreFile,
                   disk, fileHashes, ledger>>

\* A tool call beginning whatever the task's previous call is doing.
HandleUnserialised(tool, params, env) == BeginCall(tool, params, env)

\* A tool call of the task: the task presents its tool calls one at a time,
\* the next when the previous one is over.
Handle(tool, params, env) ==
    /\ call.phase = "idle"
    /\ BeginCall(tool, params, env)

ToolError(tool, reason) ==
    [type |-> "tool_error", tool |-> tool, reason |-> reason,
     intent_id |-> None, file |-> NoPath]

Finish(result) == [call EXCEPT !.phase = IF result = "ok" THEN "post" ELSE "idle",
                               !.result = result]

\* What loadIntentContext finds at TracesPath: the ledger when that is the
\* file appendAgentTrace writes, else the file orch that others left there.
TracesFile(orch) ==
    IF TracesPath = TraceFilePath
    THEN [exists |-> ledger # <<>>, tokens |-> ledger]
    ELSE orch

\* SelectActiveIntentTool.execute persisting the id without looking it up.
SelectActiveIntentExecuteAnyId(unreadable, orch) ==
    /\ call.phase = "body" /\ call.tool = "select_active_intent"
    /\ LET trimmed  == Trim(call.params.intent_raw)
           intentId == IF trimmed = <<>> THEN None ELSE trimmed[1]
       IN  IF intentId = None
           THEN /\ sink' = Append(sink, ToolError(call.tool, "missing_intent_id"))
                /\ call' = Finish("error")
                /\ UNCHANGED activeIntentId
           ELSE /\ activeIntentId' = intentId
                /\ sink' = Append(sink, [type |-> "intent_context", tool |-> call.tool,
                                         reason |-> None, intent_id |-> intentId,
                                         file |-> NoPath])
                /\ call' = Finish("ok")
    /\ UNCHANGED <<preHooks, postHooks, manifest, ignoreFile, ignoreCache,
                   disk, fileHashes, ledger>>

\* SelectActiveIntentTool.execute. unreadable: the manifest cannot be read;
\* orch: what is at .orchestration/agent_trace.jsonl.
SelectActiveIntentExecute(unreadable, orch) ==
    /\ call.phase = "body" /\ call.tool = "select_active_intent"
    /\ LET trimmed  == Trim(call.params.intent_raw)
           intentId == IF trimmed = <<>> THEN None ELSE trimmed[1]
           context  == loadIntentContext(Workspace, intentId,
                           IF unreadable THEN MissingManifest ELSE manifest)
       IN  IF intentId = None
           THEN /\ sink' = Append(sink, ToolError(call.tool, "missing_intent_id"))
                /\ call' = Finish("error")
                /\ UNCHANGED activeIntentId
           ELSE IF ~context.found
           THEN /\ sink' = Append(sink, ToolError(call.tool, "intent_not_found"))
                /\ call' = Finish("error")
                /\ UNCHANGED activeIntentId
           ELSE /\ activeIntentId' = context.intentId
                /\ sink' = Append(sink, [type |-> "intent_context", tool |-> call.tool,
                                         reason |-> None, intent_id |-> context.intentId,
                                         file |-> NoPath])
                /\ call' = [Finish("ok") EXCEPT
                              !.traceFile = TracesFile(orch),
                              !.traces = loadAgentTraces(intentId, TracesFile(orch))]
    /\ UNCHANGED <<preHooks, postHooks, manifest, ignoreFile, ignoreCache,
                   disk, fileHashes, ledger>>

\* The read tool: reads the file and stores its hash in the tracker.
ReadFileExecute ==
    /\ call.phase = "body" /\ call.tool = "read_file"
    /\ LET relPath == toRelativePath(call.params.path) IN
       IF relPath \in DOMAIN disk
       THEN /\ fileHashes' = storeFileHash(fileHashes, relPath, disk[relPath])
            /\ call' = [Finish("ok") EXCEPT !.seen = <<disk[relPath]>>,
                                            !.needRead = @ \ {relPath}]
       ELSE /\ call' = Finish("error")
            /\ UNCHANGED fileHashes
    /\ UNCHANGED <<preHooks, postHooks, activeIntentId, manifest, ignoreFile,
                   ignoreCache, disk, ledger, sink>>

\* The lock check forgetting the stored hash when it aborts.
WriteCheckForgets(readFault) ==
    /\ call.phase = "body" /\ call.tool = "write_to_file"
    /\ LET relPath    == toRelativePath(call.params.path)
           fileExists == relPath \in DOMAIN disk
           checked    == [call EXCEPT !.stored = HashAt(relPath),
                                      !.seen = IF fileExists /\ ~readFault
                                               THEN <<disk[relPath]>> ELSE <<>>]
       IN  IF fileExists /\ ~readFault /\ ~isFileUnchanged(fileHashes, relPath, disk[relPath])
           THEN /\ sink' = Append(sink, buildJsonToolError(call.tool, "stale_file",
                                                           None, relPath))
                /\ call' = [checked EXCEPT !.phase = "idle", !.result = "stale",
                                            !.needRead = @ \cup {relPath}]
                /\ fileHashes' = [p \in DOMAIN fileHashes \ {relPath} |-> fileHashes[p]]
           ELSE /\ call' = [checked EXCEPT !.phase = "commit"]
                /\ UNCHANGED <<sink, fileHashes>>
    /\ UNCHANGED <<preHooks, postHooks, activeIntentId, manifest, ignoreFile,
                   ignoreCache, disk, ledger>>

\* WriteToFileTool.execute, first part: the optimistic-lock check. An existing
\* file is re-read and compared with the tracker; readFault is a failing
\* re-read, after which the write goes on.
WriteCheck(readFault) ==
    /\ call.phase = "body" /\ call.tool = "write_to_file"
    /\ LET relPath    == toRelativePath(call.params.path)
           fileExists == relPath \in DOMAIN disk
           checked    == [call EXCEPT !.stored = HashAt(relPath),
                                      !.seen = IF fileExists /\ ~readFault
                                               THEN <<disk[relPath]>> ELSE <<>>]
       IN  IF fileExists /\ ~readFault /\ ~isFileUnchanged(fileHashes, relPath, disk[relPath])
           THEN /\ sink' = Append(sink, buildJsonToolError(call.tool, "stale_file",
                                                           None, relPath))
                /\ call' = [checked EXCEPT !.phase = "idle", !.result = "stale",
                                            !.needRead = @ \cup {relPath}]
           ELSE /\ call' = [checked EXCEPT !.phase = "commit"]
                /\ UNCHANGED sink
    /\ UNCHANGED <<preHooks, postHooks, activeIntentId, manifest, ignoreFile,
                   ignoreCache, disk, fileHashes, ledger>>

\* WriteToFileTool.execute, second part: the file is written and the tracker
\* takes the hash of the new content.
WriteCommit ==
    /\ call.phase = "commit"
    /\ LET relPath == toRelativePath(call.params.path) IN
       /\ disk' = [p \in DOMAIN disk \cup {relPath} |->
                     IF p = relPath THEN call.params.content ELSE disk[p]]
       /\ fileHashes' = storeFileHash(fileHashes, relPath, call.params.content)
       /\ call' = [Finish("ok") EXCEPT !.wrote = TRUE, !.before = DiskAt(relPath)]
    /\ UNCHANGED <<preHooks, postHooks, activeIntentId, manifest, ignoreFile,
                   ignoreCache, ledger, sink>>

\* Another destructive tool that writes the file named by its path parameter.
EditFileExecute ==
    /\ call.phase = "body" /\ call.tool = "edit_file"
    /\ LET relPath == toRelativePath(call.params.path) IN
       /\ disk' = [p \in DOMAIN disk \cup {relPath} |->
                     IF p = relPath THEN call.params.content ELSE disk[p]]
       /\ call' = [Finish("ok") EXCEPT !.wrote = TRUE, !.before = DiskAt(relPath)]
    /\ UNCHANGED <<preHooks, postHooks, activeIntentId, manifest, ignoreFile,
                   ignoreCache, fileHashes, ledger, sink>>

\* execute_command: its effect is outside the modelled state.
ExecuteCommandExecute ==
    /\ call.phase = "body" /\ call.tool = "execute_command"
    /\ call' = Finish("ok")
    /\ UNCHANGED <<preHooks, postHooks, activeIntentId, manifest, ignoreFile,
                   ignoreCache, disk, fileHashes, ledger, sink>>

\* The body of a tool outside the classification table: its effect is outside
\* the modelled state.
UnknownToolExecute ==
    /\ call.phase = "body" /\ call.tool = UnknownTool
    /\ call' = Finish("ok")
    /\ UNCHANGED <<preHooks, postHooks, activeIntentId, manifest, ignoreFile,
                   ignoreCache, disk, fileHashes, ledger, sink>>

\* BaseTool.handle after a successful body: executePostHooks. env.throws: the
\* other post-hooks that throw; the rest of env is for the trace post-hook.
PostHooks(env) ==
    /\ call.phase = "post"
    /\ LET run    == executePostHooks(postHooks, env.throws \cap PostHookIds)
           traced == \E i \in 1..Len(run.ran) : run.ran[i] = TraceHook
       IN  /\ ledger' = IF traced
                        THEN AgentTracePostHook(call.tool, call.params, ledger, env)
                        ELSE ledger
           /\ sink' = sink \o run.pushed
           /\ call' = [call EXCEPT
                         !.phase = "idle",
                         !.result = IF run.raised THEN "error" ELSE @,
                         !.postRan = run.ran,
                         !.post0 = postHooks,
                         !.postThrew = {h \in env.throws :
                                          \E i \in 1..Len(postHooks) : postHooks[i] = h},
                         !.postLogged = run.logged,
                         !.traceCaught = traced /\ AgentTraceCaught(call.tool,
                                                                    call.params, env),
                         !.traceWarned = traced /\ AgentTraceWarns(call.tool, call.params),
                         !.sink0 = sink]
    /\ UNCHANGED <<preHooks, postHooks, activeIntentId, manifest, ignoreFile,
                   ignoreCache, disk, fileHashes>>

\* isIntentIgnored called for a workspace root whose .intentignore is file:
\* the entries come from readIntentIgnoreFile, which leaves the cache; the
\* call record keeps the arguments, the state of the cache found and the answer.
IsIntentIgnored(workspaceRoot, file, intentId, fault) ==
    /\ call.phase = "idle"
    /\ LET r   == readIntentIgnoreFile(workspaceRoot, file, ignoreCache, fault)
           hit == /\ ignoreCache.set
                  /\ ignoreCache.workspace = workspaceRoot
                  /\ ignoreCache.mtimeMs = file.mtimeMs
       IN  /\ ignoreCache' = r.cache
           /\ call' = [NoCall EXCEPT
                         !.tool = "isIntentIgnored",
                         !.root = workspaceRoot,
                         !.intent = intentId,
                         !.listed = /\ file.exists
                                    /\ EntriesInclude(ParseIntentIgnore(file.raw), intentId),
                         !.key = IF ~ignoreCache.set THEN "unset"
                                 ELSE IF ignoreCache.workspace # workspaceRoot THEN "root"
                                 ELSE IF ignoreCache.mtimeMs # file.mtimeMs THEN "mtime"
                                 ELSE "hit",
                         !.ignore = IF ~file.exists THEN "missing"
                                    ELSE IF fault = "stat" \/ (~hit /\ fault = "read")
                                    THEN "fault"
                                    ELSE IF hit /\ ignoreCache.entries # ParseIntentIgnore(file.raw)
                                    THEN "stale"
                                    ELSE "current",
                         !.result = IF EntriesInclude(r.entries, intentId)
                                    THEN "ignored" ELSE "not_ignored"]
    /\ UNCHANGED <<preHooks, postHooks, activeIntentId, manifest, ignoreFile,
                   disk, fileHashes, ledger, sink>>

\* buildIntentContextXml called with an intent id, constraints, a scope and
\* the matching trace records.
RenderIntentContext(intentId, constraints, scope, agentTraces) ==
    /\ call.phase = "idle"
    /\ call' = [NoCall EXCEPT
                  !.tool = "buildIntentContextXml",
                  !.rendered = <<[intentId |-> intentId, constraints |-> constraints,
                                  scope |-> scope, agentTraces |-> agentTraces]>>,
                  !.xml = buildIntentContextXml(intentId, constraints, scope, agentTraces)]
    /\ UNCHANGED <<preHooks, postHooks, activeIntentId, manifest, ignoreFile,
                   ignoreCache, disk, fileHashes, ledger, sink>>

\* isPathWithinOwnedScope called with a path and a list of patterns.
MatchScope(relPath, ownedScope) ==
    /\ call.phase = "idle"
    /\ call' = [NoCall EXCEPT
                  !.tool = "isPathWithinOwnedScope",
                  !.params = Params(relPath, <<>>, None, None, <<>>),
                  !.declared = ScopeList(ownedScope),
                  !.within = isPathWithinOwnedScope(relPath, ownedScope)]
    /\ UNCHANGED <<preHooks, postHooks, activeIntentId, manifest, ignoreFile,
                   ignoreCache, disk, fileHashes, ledger, sink>>

\* classifyMutationAST called on an old content (absent: NoOld), a new
\* content and a hint (absent: None); the call record keeps the arguments and
\* what came out, a class or the ReferenceError.
ClassifyMutation(oldContent, newContent, llmProvidedClass) ==
    /\ call.phase = "idle"
    /\ call' = [NoCall EXCEPT
                  !.tool = "classifyMutationAST",
                  !.params = Params(NoPath, newContent, None, llmProvidedClass, <<>>),
                  !.old = oldContent,
                  !.result = classifyMutationAST(oldContent, newContent,
                                                 llmProvidedClass)]
    /\ UNCHANGED <<preHooks, postHooks, activeIntentId, manifest, ignoreFile,
                   ignoreCache, disk, fileHashes, ledger, sink>>

\* ------------------------------------------------------- YAML trace logger
\* .roo/agent_traces.yaml under the workspace root.
TracesYaml == <<".roo", "/", "agent_traces.yaml">>

\* A parsed YAML document: a sequence of items, or a mapping whose traces key
\* holds an array (items = <<the array>>) or not (items = <<>>) and whose
\* other keys are rest; NoDocument is undefined, null or a scalar.
YamlSeq(items)      == [kind |-> "seq", items |-> items, rest |-> {}]
YamlMap(items, rest) == [kind |-> "map", items |-> items, rest |-> rest]
NoDocument          == [kind |-> "none", items |-> <<>>, rest |-> {}]

\* yaml.stringify and yaml.parse; a text that is no YAML makes parse throw.
YamlStringify(document) == [valid |-> TRUE, document |-> document]
YamlParse(raw) == IF raw.valid THEN [ok |-> TRUE, document |-> raw.document]
                  ELSE [ok |-> FALSE, document |-> NoDocument]

buildSummary(filePath, content) == <<"write_to_file:", filePath, Len(content)>>

\* The entry logAgentTrace builds from its parameters.
AgentTraceEntry(params) ==
    [intent_id        |-> params.intentId,
     file             |-> params.filePath,
     timestamp        |-> params.timestamp,
     model_identifier |-> params.modelIdentifier,
     summary          |-> buildSummary(params.filePath, params.content),
     content          |-> params.content]

\* The document logAgentTrace writes back: the entry appended to the
\* existing array or to the traces array of the existing mapping, and a new
\* mapping of the one entry for anything else.
TraceOutput(existing, entry) ==
    IF existing.kind = "seq" THEN YamlSeq(Append(existing.items, entry))
    ELSE IF existing.kind = "map" /\ existing.items # <<>>
    THEN YamlMap(<<Append(existing.items[1], entry)>>, existing.rest)
    ELSE YamlMap(<<<<entry>>>>, {})

NoLogger == [pc |-> "idle", existing |-> NoDocument, entry |-> <<>>, erred |-> FALSE]

\* logAgentTrace up to the end of its read of the traces file: nothing at
\* all without an intent id or a file path; else the existing document, or
\* undefined when the file is missing, unreadable (readFault) or no YAML.
LogAgentTraceRead(i, params, readFault) ==
    /\ call.loggers[i].pc = "idle"
    /\ LET missing == TracesYaml \notin DOMAIN disk
           parsed  == IF missing \/ readFault THEN [ok |-> FALSE, document |-> NoDocument]
                      ELSE YamlParse(disk[TracesYaml])
       IN  call' = [call EXCEPT !.loggers[i] =
                      IF params.intentId = <<>> \/ params.filePath = NoPath
                      THEN [NoLogger EXCEPT !.pc = "returned"]
                      ELSE [pc       |-> "read",
                            existing |-> parsed.document,
                            entry    |-> <<AgentTraceEntry(params)>>,
                            erred    |-> ~missing /\ ~parsed.ok]]
    /\ UNCHANGED <<preHooks, postHooks, activeIntentId, manifest, ignoreFile,
                   ignoreCache, disk, fileHashes, ledger, sink>>

\* The rest of logAgentTrace: the whole file rewritten from what was read.
LogAgentTraceWrite(i) ==
    /\ call.loggers[i].pc = "read"
    /\ LET output == TraceOutput(call.loggers[i].existing, call.loggers[i].entry[1])
       IN  disk' = [p \in DOMAIN disk \cup {TracesYaml} |->
                      IF p = TracesYaml THEN YamlStringify(output) ELSE disk[p]]
    /\ call' = [call EXCEPT !.loggers[i].pc = "written"]
    /\ UNCHANGED <<preHooks, postHooks, activeIntentId, manifest, ignoreFile,
                   ignoreCache, fileHashes, ledger, sink>>

\* -------------------------------------------------------------- environment
\* Another writer (a human, another agent) writes or deletes a workspace file.
ExternalWrite(p, c) ==
    /\ DiskAt(p) # <<c>>
    /\ disk' = [q \in DOMAIN disk \cup {p} |-> IF q = p THEN c ELSE disk[q]]
    /\ UNCHANGED <<preHooks, postHooks, activeIntentId, manifest, ignoreFile,
                   ignoreCache, fileHashes, ledger, sink, call>>

\* The manifest is edited, created or deleted.
ManifestEdit(doc) ==
    /\ doc # manifest
    /\ manifest' = doc
    /\ UNCHANGED <<preHooks, postHooks, activeIntentId, ignoreFile, ignoreCache,
                   disk, fileHashes, ledger, sink, call>>

\* .intentignore is written: tick is whether the file system's clock moved
\* since the last write of the file.
IgnoreEdit(raw, tick) ==
    /\ ~ignoreFile.exists \/ raw # ignoreFile.raw
    /\ ignoreFile.mtimeMs + tick <= MaxMtime
    /\ ignoreFile' = [exists |-> TRUE, raw |-> raw, mtimeMs |-> ignoreFile.mtimeMs + tick]
    /\ UNCHANGED <<preHooks, postHooks, activeIntentId, manifest, ignoreCache,
                   disk, fileHashes, ledger, sink, call>>

IgnoreDelete ==
    /\ ignoreFile.exists
    /\ ignoreFile' = [ignoreFile EXCEPT !.exists = FALSE, !.raw = <<>>]
    /\ UNCHANGED <<preHooks, postHooks, activeIntentId, manifest, ignoreCache,
                   disk, fileHashes, ledger, sink, call>>

\* ----------------------------------------------------- registry operations
Contains(hooks, id) == \E i \in 1..Len(hooks) : hooks[i] = id

\* registerPreHook / registerPostHook: a duplicate id is skipped.
registerHook(hooks, id) == IF Contains(hooks, id) THEN hooks ELSE Append(hooks, id)

\* Array.prototype.findIndex on the hook ids: the 0-based index of the first
\* hook with the id, or -1.
findIndex(hooks, id) ==
    IF Contains(hooks, id)
    THEN (CHOOSE i \in 1..Len(hooks) :
             hooks[i] = id /\ \A j \in 1..(i - 1) : hooks[j] # id) - 1
    ELSE -1

\* unregister with splice(index): everything from the index on is removed.
unregisterHookSpliceRest(hooks, id) ==
    LET index == findIndex(hooks, id) IN
    IF index >= 0
    THEN [hooks |-> SubSeq(hooks, 1, index), ret |-> TRUE]
    ELSE [hooks |-> hooks, ret |-> FALSE]

\* unregisterPreHook / unregisterPostHook: findIndex, then splice(index, 1);
\* the list left and the value returned.
unregisterHook(hooks, id) ==
    LET index == findIndex(hooks, id) IN
    IF index >= 0
    THEN [hooks |-> SubSeq(hooks, 1, index) \o SubSeq(hooks, index + 2, Len(hooks)),
          ret   |-> TRUE]
    ELSE [hooks |-> hooks, ret |-> FALSE]

RegisterPreHook(id) ==
    /\ call.phase = "idle"
    /\ Len(preHooks) < MaxHooks \/ Contains(preHooks, id)
    /\ preHooks' = registerHook(preHooks, id)
    /\ UNCHANGED <<postHooks, activeIntentId, manifest, ignoreFile, ignoreCache,
                   disk, fileHashes, ledger, sink, call>>

RegisterPostHook(id) ==
    /\ call.phase = "idle"
    /\ Len(postHooks) < MaxHooks \/ Contains(postHooks, id)
    /\ postHooks' = registerHook(postHooks, id)
    /\ UNCHANGED <<preHooks, activeIntentId, manifest, ignoreFile, ignoreCache,
                   disk, fileHashes, ledger, sink, call>>

UnregisterPreHook(id) ==
    /\ call.phase = "idle"
    /\ preHooks' = unregisterHook(preHooks, id).hooks
    /\ UNCHANGED <<postHooks, activeIntentId, manifest, ignoreFile, ignoreCache,
                   disk, fileHashes, ledger, sink, call>>

UnregisterPostHook(id) ==
    /\ call.phase = "idle"
    /\ postHooks' = unregisterHook(postHooks, id).hooks
    /\ UNCHANGED <<preHooks, activeIntentId, manifest, ignoreFile, ignoreCache,
                   disk, fileHashes, ledger, sink, call>>

\* ---------------------------------------------------------- specifications
QuietOutcome == [h \in OtherPreHooks |-> "allow"]

GateEnv(ignoreFault, manifestFault, selection, outcome) ==
    [ignoreFault |-> ignoreFault, manifestFault |-> manifestFault,
     selection |-> selection, outcome |-> outcome]

PostEnv(gitShow, revParse, branch, appendFault, throws) ==
    [gitShow |-> gitShow, revParse |-> revParse, branch |-> branch,
     appendFault |-> appendFault, throws |-> throws]

Committed(c) == [ok |-> TRUE, out |-> c]

WriteParams(path, content, intent_id, hint) == Params(path, content, intent_id, hint, <<>>)
SelectParams(raw) == Params(NoPath, <<>>, None, None, raw)
PathParams(path)  == Params(path, <<>>, None, None, <<>>)

InitCommon ==
    /\ preHooks = <<SecurityHook>>
    /\ postHooks = <<TraceHook>>
    /\ ignoreCache = NoCache
    /\ disk = [p \in {PathSrc} |-> V1]
    /\ fileHashes = <<>>
    /\ ledger = <<>>
    /\ sink = <<>>
    /\ call = NoCall

\* The gate: intents, manifest, scope, prompt, with the hooks registered at
\* start-up.
SelectRaws == { <<>>, <<" ", "INT-1", " ">>, <<"INT-9">>, <<"INT-404">> }

GateCalls ==
    {<<"select_active_intent", SelectParams(raw)>> : raw \in SelectRaws}
    \cup {<<"write_to_file", WriteParams(p, V1, "INT-1", None)>> : p \in ParamPaths}
    \cup {<<"write_to_file", WriteParams(PathSrc, V1, None, None)>>}
    \cup {<<"edit_file", WriteParams(PathDocs, V1, None, None)>>,
          <<"execute_command", NoParams>>,
          <<UnknownTool, NoParams>>,
          <<"read_file", PathParams(PathSrc)>>}

Init ==
    /\ InitCommon
    /\ activeIntentId = None
    /\ manifest \in ManifestDocs
    /\ ignoreFile = [exists |-> TRUE, raw |-> << <<"INT-9">> >>, mtimeMs |-> 0]

Next ==
    \/ \E c \in GateCalls, m \in ManifestFaults, sel \in {"Approve", "Reject"} :
           Handle(c[1], c[2], GateEnv("none", m, sel, QuietOutcome))
    \/ \E unreadable \in BOOLEAN : SelectActiveIntentExecute(unreadable, MissingTraces)
    \/ ReadFileExecute
    \/ \E readFault \in BOOLEAN : WriteCheck(readFault)
    \/ WriteCommit
    \/ EditFileExecute
    \/ ExecuteCommandExecute
    \/ UnknownToolExecute
    \/ PostHooks(PostEnv(NoOld, "fail", "fail", FALSE, {}))
    \/ \E doc \in ManifestDocs : ManifestEdit(doc)

Spec == Init /\ [][Next]_vars

\* The optimistic lock and the ledger: one task with a selected intent reads
\* and writes one file that another writer writes too.
LockCalls ==
    {<<"read_file", PathParams(PathSrc)>>}
    \cup {<<"write_to_file", WriteParams(PathSrc, c, "INT-1", None)>> : c \in Contents}

LockPostEnvs ==
    {PostEnv(g, r, b, a, {}) :
        g \in {NoOld, Committed(V1 \o <<"\n">>)},
        r \in GitAnswers({"abc123"}), b \in {"fail", "main"}, a \in BOOLEAN}

InitLock ==
    /\ InitCommon
    /\ activeIntentId = "INT-1"
    /\ manifest = ManifestObject
    /\ ignoreFile = MissingIgnore

NextLock ==
    \/ \E c \in LockCalls, sel \in {"Approve", "Reject"} :
           Handle(c[1], c[2], GateEnv("none", "none", sel, QuietOutcome))
    \/ ReadFileExecute
    \/ \E readFault \in BOOLEAN : WriteCheck(readFault)
    \/ WriteCommit
    \/ \E e \in LockPostEnvs : PostHooks(e)
    \/ \E c \in Contents : ExternalWrite(PathSrc, c)

SpecLock == InitLock /\ [][NextLock]_vars

\* The ignore list: .intentignore is written, touched and deleted while the
\* task selects intents and runs commands.
IgnoreCalls ==
    {<<"select_active_intent", SelectParams(<<i>>)>> : i \in IntentIds}
    \cup {<<"execute_command", NoParams>>}

InitIgnore ==
    /\ InitCommon
    /\ activeIntentId = None
    /\ manifest = ManifestList
    /\ ignoreFile = MissingIgnore

NextIgnore ==
    \/ \E c \in IgnoreCalls, f \in IgnoreFaults, sel \in {"Approve", "throws"} :
           Handle(c[1], c[2], GateEnv(f, "none", sel, QuietOutcome))
    \/ SelectActiveIntentExecute(FALSE, MissingTraces)
    \/ ExecuteCommandExecute
    \/ PostHooks(PostEnv(NoOld, "fail", "fail", FALSE, {}))
    \/ \E raw \in IgnoreRaws, tick \in {0, 1} : IgnoreEdit(raw, tick)
    \/ IgnoreDelete

SpecIgnore == InitIgnore /\ [][NextIgnore]_vars

\* The registry: pre-hooks are registered and unregistered between tool calls,
\* and the hooks other than the security hook allow, block or throw.
InitRegistry ==
    /\ InitCommon
    /\ activeIntentId = None
    /\ manifest = MissingManifest
    /\ ignoreFile = MissingIgnore

NextRegistry ==
    \/ \E id \in PreHookIds : RegisterPreHook(id)
    \/ \E id \in PreHookIds : UnregisterPreHook(id)
    \/ \E o \in [OtherPreHooks -> Outcomes], sel \in {"Approve", "Reject"} :
           Handle("execute_command", NoParams, GateEnv("none", "none", sel, o))
    \/ ExecuteCommandExecute
    \/ PostHooks(PostEnv(NoOld, "fail", "fail", FALSE, {}))

SpecRegistry == InitRegistry /\ [][NextRegistry]_vars


\* ------------------------------------------------------------------ claims
\* C1: a destructive tool other than select_active_intent succeeds only while
\* the task has an active intent; without one it is blocked before any side
\* effect. The pre-hook has no such gate: the statement is violated.
C1_DestructiveNeedsIntent ==
    (call.tool \in DestructiveTools /\ call.result = "ok") => call.intent # None

\* C2, as stated: a destructive call made while .intentignore lists the active
\* intent is blocked with an intent_ignored error that carries the intent id.
C2_ListedIsBlocked ==
    (call.tool \in DestructiveTools /\ call.listed)
        => /\ ~call.ret
           /\ call.result = "none"
           /\ sink = <<buildJsonToolError(call.tool, "intent_ignored", call.intent, NoPath)>>

\* C2, amended: the same for a call whose read of .intentignore did not fail
\* and was not served by a cache entry filled from other content under the
\* same modification time.
C2_CurrentListIsBlocked ==
    (/\ call.tool \in DestructiveTools
     /\ call.listed
     /\ call.ignore = "current"
     /\ Contains(call.ran, SecurityHook))
        => /\ ~call.ret
           /\ call.result = "none"
           /\ sink = <<buildJsonToolError(call.tool, "intent_ignored", call.intent, NoPath)>>

C2_Witness ==
    /\ call.tool = "execute_command"
    /\ call.listed
    /\ call.ignore = "current"
    /\ call.gate.step = "ignore"
    /\ call.intent = "INT-1"

C4_HashOfOverwrittenContent ==
    (call.tool = "write_to_file" /\ call.wrote /\ call.before # <<>>)
        => call.stored = <<generateContentHash(call.before[1])>>

\* C4, amended: when write_to_file goes on to write a file for which a hash
\* was recorded and which its lock check re-read, the recorded hash is the hash
\* of the content the lock check read.
C4_HashOfCheckedContent ==
    (/\ call.tool = "write_to_file"
     /\ call.phase = "commit" \/ call.wrote
     /\ call.seen # <<>>
     /\ call.stored # <<>>)
        => call.stored = <<generateContentHash(call.seen[1])>>

C4_Witness ==
    /\ call.tool = "write_to_file"
    /\ call.wrote
    /\ call.seen # <<>>
    /\ call.stored = <<generateContentHash(V2)>>
    /\ call.before = <<V2>>

\* C5, as stated: the task never overwrites content that differs from the
\* content whose hash it recorded: such a write is aborted and the disk keeps
\* what the other writer wrote.
C5_ChangedContentNotOverwritten ==
    (/\ call.tool = "write_to_file"
     /\ call.stored # <<>>
     /\ call.before # <<>>
     /\ call.stored # <<generateContentHash(call.before[1])>>)
        => ~call.wrote

\* C5, amended: a write_to_file whose lock check re-reads the file and finds
\* content that does not hash to the recorded hash is aborted with a stale_file
\* error for the path, writes nothing and appends no ledger line.
C5_StaleAtLockCheck ==
    (/\ call.tool = "write_to_file"
     /\ call.seen # <<>>
     /\ call.stored # <<>>
     /\ call.stored # <<generateContentHash(call.seen[1])>>)
        => /\ call.result = "stale"
           /\ call.phase = "idle"
           /\ ~call.wrote
           /\ sink # <<>>
           /\ sink[Len(sink)] = buildJsonToolError("write_to_file", "stale_file", None,
                                                   toRelativePath(call.params.path))
           /\ Len(ledger) = call.ledger0

C5_Witness ==
    /\ call.tool = "write_to_file"
    /\ call.result = "stale"
    /\ call.seen = <<V2>>
    /\ call.stored = <<generateContentHash(V1)>>
    /\ DiskAt(PathSrc) = <<V2>>

C7_AppendOnly == [][IsPrefix(ledger, ledger')]_vars

C7_Witness ==
    /\ LedgerLines = 2
    /\ ledger[1] # ledger[3]

\* C8: the ledger is a sequence of lines, each one complete JSON object with
\* req_id, intent_id, file, timestamp, mutation_class, content_hash, related
\* and ranges.content_hash, ended by one newline; a tool call adds no line or
\* exactly one.
C8_CompleteLines ==
    /\ Len(ledger) % 2 = 0
    /\ \A i \in 1..Len(ledger) :
          IF i % 2 = 1
          THEN /\ ledger[i].t = "json"
               /\ {"req_id", "intent_id", "file", "timestamp", "mutation_class",
                   "content_hash", "related", "ranges"} \subseteq DOMAIN ledger[i].v
               /\ "content_hash" \in DOMAIN ledger[i].v.ranges
               /\ ledger[i].v.intent_id # None
          ELSE ledger[i] = Newline
    /\ Len(ledger) - call.ledger0 \in {0, 2}

C8_Witness ==
    /\ call.tool = "write_to_file"
    /\ call.phase = "idle"
    /\ call.postRan = <<TraceHook>>
    /\ Len(ledger) = call.ledger0 + 2
    /\ call.ledger0 = 2

\* C9: in every ledger record content_hash equals ranges.content_hash, the
\* record a write appended carries the hash of the content written, a present
\* vcs has a non-empty revision, and branch occurs only inside vcs.
C9_HashesAndVcs ==
    /\ \A i \in 1..Len(ledger) :
          ledger[i].t = "json"
            => LET e == ledger[i].v IN
               /\ e.content_hash = e.ranges.content_hash
               /\ "branch" \notin DOMAIN e
               /\ "vcs" \in DOMAIN e
                    => /\ Len(e.vcs) = 1
                       /\ e.vcs[1].revision # None
                       /\ e.vcs[1].revision # ""
    /\ Len(ledger) > call.ledger0
          => /\ call.wrote
             /\ ledger[Len(ledger) - 1].v.content_hash
                    = generateContentHash(call.params.content)
             /\ DiskAt(toRelativePath(call.params.path)) = <<call.params.content>>
                    => ledger[Len(ledger) - 1].v.content_hash
                           = generateContentHash(disk[toRelativePath(call.params.path)])

C9_Witness ==
    /\ Len(ledger) > call.ledger0
    /\ "vcs" \in DOMAIN ledger[Len(ledger) - 1].v
    /\ ledger[Len(ledger) - 1].v.vcs[1].branch = "main"
    /\ call.params.content = V2

\* C10: executePreHooks runs the pre-hooks in registration order, stops at the
\* first hook that returns allow = false and then returns false, having
\* forwarded the error that hook provided to the result sink; otherwise it runs
\* them all and returns true.
C10_OrderAndShortCircuit ==
    LET n        == Len(call.pre0)
        blockers == {i \in 1..n : ~call.res[i].throws /\ ~call.res[i].allow}
        stop     == IF blockers = {} THEN n
                    ELSE CHOOSE i \in blockers : \A j \in blockers : i <= j
        errs     == IF blockers # {} /\ call.res[stop].error # NoError
                    THEN <<call.res[stop].error>> ELSE <<>>
        own      == IF blockers # {} THEN call.res[stop].pushed ELSE <<>>
    IN  call.tool # None
          => /\ call.ran = SubSeq(call.pre0, 1, stop)
             /\ call.ret = (blockers = {})
             /\ sink = own \o errs
             /\ ~call.ret => call.phase = "idle" /\ call.result = "none"

C10_Witness ==
    /\ Len(call.pre0) = 2
    /\ call.ran = <<call.pre0[1]>>
    /\ ~call.ret
    /\ call.res[1].error # NoError
    /\ sink = <<call.res[1].error>>

\* C11: a pre-hook that throws never blocks the tool: its exception is logged,
\* the hooks registered after it still run in order, and executePreHooks
\* returns false exactly when a hook that ran returned allow = false.
C11_ThrowNeverBlocks ==
    LET n       == Len(call.ran)
        threw   == {i \in 1..n : call.res[i].throws}
        refused == {i \in 1..n : ~call.res[i].throws /\ ~call.res[i].allow}
    IN  call.tool # None
          => /\ IsPrefix(call.ran, call.pre0)
             /\ call.logged = SelectSeq(call.ran,
                                  LAMBDA h : \E i \in threw : call.ran[i] = h)
             /\ \A i \in threw : i < Len(call.pre0) => n > i
             /\ ~call.ret <=> refused # {}
             /\ (\A i \in 1..Len(call.pre0) :
                    call.res[i].throws \/ call.res[i].allow)
                  => call.ret /\ call.ran = call.pre0

C11_Witness ==
    /\ Len(call.pre0) = 2
    /\ call.res[1].throws
    /\ call.ran = call.pre0
    /\ call.logged = <<call.pre0[1]>>
    /\ call.ret
    /\ call.result = "ok"

\* The post-hooks: hooks are registered and unregistered between writes, the
\* other post-hook throws or not, and the ledger append fails or not.
PostCalls ==
    {<<"write_to_file", WriteParams(PathSrc, V1, i, None)>> : i \in {None, "INT-1"}}

PostEnvs ==
    {PostEnv(NoOld, "fail", "fail", a, t) : a \in BOOLEAN, t \in SUBSET OtherPostHooks}

InitPost ==
    /\ InitCommon
    /\ activeIntentId = "INT-1"
    /\ manifest = ManifestObject
    /\ ignoreFile = MissingIgnore

NextPost ==
    \/ \E id \in PostHookIds : RegisterPostHook(id)
    \/ \E id \in PostHookIds : UnregisterPostHook(id)
    \/ \E c \in PostCalls, sel \in {"Approve", "Reject"} :
           Handle(c[1], c[2], GateEnv("none", "none", sel, QuietOutcome))
    \/ WriteCheck(FALSE)
    \/ WriteCommit
    \/ \E e \in PostEnvs : PostHooks(e)

SpecPost == InitPost /\ [][NextPost]_vars

\* C12: executePostHooks runs every registered post-hook in registration
\* order whatever the earlier ones did: a post-hook that throws, and a ledger
\* append that fails inside the trace post-hook, is logged, does not stop the
\* later post-hooks, and reaches neither the caller nor the result sink.
C12_PostHooksAllRun ==
    (call.wrote /\ call.phase = "idle")
        => /\ call.postRan = call.post0
           /\ call.postLogged = SelectSeq(call.post0, LAMBDA h : h \in call.postThrew)
           /\ call.result = "ok"
           /\ sink = call.sink0
           /\ (/\ Contains(call.post0, TraceHook)
               /\ call.params.intent_id # None
               /\ ~call.traceCaught)
                 => Len(ledger) = call.ledger0 + 2
           /\ call.traceCaught => Len(ledger) = call.ledger0

C12_Witness ==
    /\ call.wrote /\ call.phase = "idle"
    /\ call.post0 = <<TraceHook, "post-a">>
    /\ call.traceCaught
    /\ call.postThrew = {"post-a"}
    /\ call.postRan = call.post0

\* Both hook lists: hooks are registered and unregistered between tool calls
\* that every hook lets through.
InitHooks == InitRegistry

NextHooks ==
    \/ \E id \in PreHookIds : RegisterPreHook(id)
    \/ \E id \in PostHookIds : RegisterPostHook(id)
    \/ \E id \in PreHookIds : UnregisterPreHook(id)
    \/ \E id \in PostHookIds : UnregisterPostHook(id)
    \/ Handle("execute_command", NoParams, GateEnv("none", "none", "Approve", QuietOutcome))
    \/ ExecuteCommandExecute
    \/ PostHooks(PostEnv(NoOld, "fail", "fail", FALSE, {}))

SpecHooks == InitHooks /\ [][NextHooks]_vars

\* C13: the ids in the pre-hook list are pairwise distinct and so are the ids
\* in the post-hook list; registering an id already present leaves the list
\* unchanged and a new id goes to the end; unregister(id) removes exactly the
\* hook with that id, keeps the order of the others, and returns true exactly
\* when the id was present.
DistinctIds(hooks) ==
    \A i, j \in 1..Len(hooks) : hooks[i] = hooks[j] => i = j

Without(hooks, id) == SelectSeq(hooks, LAMBDA h : h # id)

C13_RegistryStep ==
    /\ \A id \in PreHookIds :
          /\ RegisterPreHook(id)
                => preHooks' = IF Contains(preHooks, id) THEN preHooks
                               ELSE preHooks \o <<id>>
          /\ UnregisterPreHook(id)
                => /\ preHooks' = Without(preHooks, id)
                   /\ Len(preHooks') = Len(preHooks) - (IF Contains(preHooks, id) THEN 1 ELSE 0)
                   /\ unregisterHook(preHooks, id).ret <=> Contains(preHooks, id)
    /\ \A id \in PostHookIds :
          /\ RegisterPostHook(id)
                => postHooks' = IF Contains(postHooks, id) THEN postHooks
                                ELSE postHooks \o <<id>>
          /\ UnregisterPostHook(id)
                => /\ postHooks' = Without(postHooks, id)
                   /\ Len(postHooks') = Len(postHooks) - (IF Contains(postHooks, id) THEN 1 ELSE 0)
                   /\ unregisterHook(postHooks, id).ret <=> Contains(postHooks, id)

C14_GatedIffNotSafe ==
    (call.tool # None /\ Contains(call.ran, SecurityHook))
        => IF call.tool \in SafeTools
           THEN /\ call.ret
                /\ call.gate.allow
                /\ call.gate.step = "safe"
                /\ call.gate.reads = {}
                /\ ~call.gate.prompted
                /\ call.gate.pushed = <<>>
                /\ sink = <<>>
           ELSE /\ call.gate.step \in {"ignore", "scope", "prompt"}
                /\ call.intent # None => "ignore" \in call.gate.reads
                /\ call.gate.allow => call.gate.prompted
                /\ ~call.gate.allow => call.gate.pushed # <<>> /\ ~call.ret

C14_Witness ==
    /\ call.tool = UnknownTool
    /\ call.intent = "INT-9"
    /\ call.gate.step = "ignore"
    /\ ~call.ret

\* The gate policy: one task writes inside and outside the owned scope and
\* runs commands, under every fault of the ignore-list read and of the
\* manifest load and every answer to the prompt, for every manifest and
\* ignore list.
PolicyCalls ==
    {<<"write_to_file", WriteParams(p, V1, None, None)>> : p \in Paths}
    \cup {<<"execute_command", NoParams>>}

PolicyIgnoreFiles ==
    {MissingIgnore}
    \cup {[exists |-> TRUE, raw |-> raw, mtimeMs |-> 0] : raw \in IgnoreRaws \ {<<>>}}

\* Every pair of faults under Approve and Reject; a dismissed and an
\* unavailable prompt without faults and with both.
PolicyEnvs ==
    {GateEnv(f, m, sel, QuietOutcome) :
        f \in IgnoreFaults, m \in ManifestFaults, sel \in {"Approve", "Reject"}}
    \cup {GateEnv(fm[1], fm[2], sel, QuietOutcome) :
        fm \in {<<"none", "none">>, <<"read", "throws">>},
        sel \in {"dismissed", "throws"}}

InitPolicy ==
    /\ InitCommon
    /\ activeIntentId \in IntentIds
    /\ manifest \in ManifestDocs \cup {ManifestAliased}
    /\ ignoreFile \in PolicyIgnoreFiles

NextPolicy ==
    \/ \E c \in PolicyCalls, e \in PolicyEnvs : Handle(c[1], c[2], e)
    \/ WriteCheck(FALSE)
    \/ WriteCommit
    \/ ExecuteCommandExecute
    \/ PostHooks(PostEnv(NoOld, "fail", "fail", TRUE, {}))

SpecPolicy == InitPolicy /\ [][NextPolicy]_vars

\* C15: the security pre-hook checks the ignore list, then the scope, then
\* asks the operator, and a denial ends the evaluation: a call blocked by the
\* ignore list has had no manifest load and no prompt, a call blocked by the
\* scope has passed the ignore list and has had no prompt, the prompt is shown
\* only to a call that passed both, and a call whose intent is found on the
\* ignore list and whose path is outside the owned scope reports
\* intent_ignored.
C15_FixedOrder ==
    LET g       == call.gate
        rel     == toRelativePath(call.params.path)
        ignored == EntriesInclude(g.entries, call.intent)
        outside == /\ call.tool = "write_to_file"
                   /\ Len(g.scope.v) > 0
                   /\ ~isPathWithinOwnedScope(rel, g.scope.v)
        beyond  == /\ call.tool = "write_to_file"
                   /\ Len(call.declared.v) > 0
                   /\ ~isPathWithinOwnedScope(rel, call.declared.v)
    IN  (call.tool \in DestructiveTools /\ Contains(call.ran, SecurityHook))
          => /\ g.step = "ignore"
                  => /\ ~g.allow /\ ~g.prompted /\ "manifest" \notin g.reads
                     /\ sink = <<buildJsonToolError(call.tool, "intent_ignored",
                                                    call.intent, NoPath)>>
             /\ g.step = "scope"
                  => /\ ~g.allow /\ ~g.prompted /\ ~ignored
                     /\ call.intent # None => "ignore" \in g.reads
                     /\ sink = <<buildJsonToolError(call.tool, "scope_violation",
                                                    call.intent, rel)>>
             /\ g.prompted => g.step = "prompt" /\ ~ignored /\ ~outside
             /\ (call.listed /\ call.ignore = "current" /\ beyond)
                  => /\ g.step = "ignore"
                     /\ sink = <<buildJsonToolError(call.tool, "intent_ignored",
                                                    call.intent, NoPath)>>

C15_Witness ==
    /\ call.tool = "write_to_file"
    /\ call.params.path = PathDocs
    /\ call.intent = "INT-1"
    /\ call.listed
    /\ Len(call.declared.v) > 0
    /\ call.gate.step = "ignore"
    /\ ~call.ret

\* C16: a destructive call that passed the ignore list and the scope check
\* is shown the prompt, and it is allowed if and only if the operator answers
\* Approve or the prompt itself raises an error; Reject, or the modal
\* dismissed without a selection, blocks it with reason user_rejected and
\* nothing else is pushed.
C16_PromptDecides ==
    LET g == call.gate IN
    (/\ call.tool \in DestructiveTools
     /\ Contains(call.ran, SecurityHook)
     /\ g.step \notin {"ignore", "scope"})
      => /\ g.prompted
         /\ g.answer \in Selections
         /\ g.allow <=> g.answer \in {"Approve", "throws"}
         /\ call.ret <=> g.allow
         /\ (g.allow /\ call.phase = "body") => sink = <<>>
         /\ ~g.allow => sink = <<buildJsonToolError(call.tool, "user_rejected",
                                                    call.intent, NoPath)>>

C16_Witness ==
    /\ call.tool = "write_to_file"
    /\ call.params.path = PathSrc
    /\ call.gate.prompted
    /\ call.gate.answer = "dismissed"
    /\ ~call.ret
    /\ sink = <<buildJsonToolError("write_to_file", "user_rejected", call.intent, NoPath)>>

\* C17: a fault inside the security pre-hook never blocks a tool. When the
\* read of .intentignore fails the failure is logged, no entry is read and the
\* call is not denied by the ignore list; when the manifest load of the scope
\* check fails the failure is logged and the call is not denied by the scope;
\* in both cases the call goes on to the next step and is in the end shown
\* the prompt, whose answer alone decides. A denial comes only from an entry
\* actually read, a scope actually loaded, or the operator.
C17_FaultsFailOpen ==
    LET g == call.gate IN
    (call.tool \in DestructiveTools /\ Contains(call.ran, SecurityHook))
      => /\ call.ignore = "fault"
              => /\ "ignore" \in g.logs
                 /\ g.entries = <<>>
                 /\ g.step # "ignore"
                 /\ call.tool = "write_to_file" => "manifest" \in g.reads
                 /\ g.step # "scope" => g.prompted
         /\ g.load \in {"unreadable", "throws"}
              => /\ "manifest" \in g.logs
                 /\ g.step = "prompt" /\ g.prompted
                 /\ g.allow <=> g.answer \in {"Approve", "throws"}
         /\ ~g.allow
              => \/ g.step = "ignore" /\ call.ignore # "fault" /\ g.logs = {}
                 \/ g.step = "scope" /\ g.load = "none" /\ Len(g.scope.v) > 0
                 \/ g.step = "prompt" /\ g.answer \in {"Reject", "dismissed"}

C17_Witness ==
    /\ call.tool = "write_to_file"
    /\ call.params.path = PathDocs
    /\ call.intent = "INT-1"
    /\ call.listed
    /\ call.ignore = "fault"
    /\ Len(call.declared.v) > 0
    /\ call.gate.load = "throws"
    /\ call.gate.logs = {"ignore", "manifest"}
    /\ call.gate.answer = "Approve"
    /\ call.ret

\* The identifier of a manifest entry: id, or intent_id for an entry without id.
EntryId(e) == IF e.id # None THEN e.id ELSE e.intent_id

\* C18 as stated: the load of the scope check returns absent exactly when
\* the manifest is missing or has no entry whose id or intent_id is the
\* intent.
C18_AbsentIffMissingOrUnlisted ==
    LET g == call.gate IN
    g.load \in {"none", "unreadable"}
      => (~g.found <=>
            \/ manifest.shape = "missing"
            \/ ~\E i \in 1..Len(manifest.intents) :
                   \/ manifest.intents[i].id = call.intent
                   \/ manifest.intents[i].intent_id = call.intent)

\* C18: the load of the scope check returns absent exactly when the manifest
\* is missing, cannot be read, or has no entry whose identifier (id, or
\* intent_id for an entry without id) is the intent; the context found carries
\* the owned scope of the first such entry, a string as a one-element list.
\* The scope check is never a denial when the load returned absent, when the
\* entry has no owned_scope, or when its owned_scope list is empty.
C18_AbsentIffNoEntryLoaded ==
    LET g     == call.gate
        match == IF manifest.shape = "missing" THEN {}
                 ELSE { i \in 1..Len(manifest.intents) :
                          EntryId(manifest.intents[i]) = call.intent }
    IN  /\ g.load \in {"none", "unreadable"}
             => /\ ~g.found <=> \/ manifest.shape = "missing"
                                \/ g.load = "unreadable"
                                \/ match = {}
                /\ g.found
                     => \E i \in match :
                           /\ \A j \in match : i <= j
                           /\ g.scope.v = manifest.intents[i].owned_scope.v
                           /\ g.scope.t = "absent"
                                <=> manifest.intents[i].owned_scope.t = "absent"
                /\ ~g.found => g.scope = NoScope
        /\ (/\ "manifest" \in g.reads
            /\ \/ ~g.found
               \/ g.scope.t = "absent"
               \/ Len(g.scope.v) = 0)
             => g.step = "prompt" /\ g.prompted

C18_Witness ==
    /\ call.tool = "write_to_file"
    /\ call.params.path = PathDocs
    /\ manifest = ManifestAliased
    /\ call.intent = "INT-1"
    /\ call.gate.load = "none"
    /\ ~call.gate.found
    /\ call.gate.step = "prompt"
    /\ call.ret

\* What C19 says of one step.
C19_Step ==
    LET selecting == /\ call.phase = "body"
                     /\ call.tool = "select_active_intent"
                     /\ call'.phase # "body"
        trimmed   == Trim(call.params.intent_raw)
        listed    == /\ manifest.shape # "missing"
                     /\ \E i \in 1..Len(manifest.intents) :
                            <<EntryId(manifest.intents[i])>> = trimmed
    IN  /\ activeIntentId' # activeIntentId
             => /\ selecting
                /\ call'.result = "ok"
                /\ listed
                /\ <<activeIntentId'>> = trimmed
        /\ activeIntentId # None => activeIntentId' # None
        /\ selecting
             => /\ trimmed = <<>>
                     => /\ activeIntentId' = activeIntentId
                        /\ call'.result = "error"
                        /\ sink' = Append(sink, ToolError("select_active_intent",
                                                          "missing_intent_id"))
                /\ (trimmed # <<>> /\ ~listed)
                     => /\ activeIntentId' = activeIntentId
                        /\ call'.result = "error"
                        /\ sink' = Append(sink, ToolError("select_active_intent",
                                                          "intent_not_found"))
                /\ call'.result = "ok" => <<activeIntentId'>> = trimmed

\* C19: the active intent changes only by a successful select_active_intent,
\* to the trimmed id asked for, and only when the manifest lists that id at
\* that moment; a select with an empty id answers missing_intent_id and one
\* with an id the manifest does not list answers intent_not_found, both
\* leaving the active intent as it was. Once set, the active intent is never
\* unset again, and an id that no manifest lists is never active.
C19_IntentTransitions ==
    /\ [](activeIntentId \in {None} \cup IntentIds)
    /\ [][C19_Step]_vars

C19_Witness ==
    /\ call.tool = "select_active_intent"
    /\ call.intent = "INT-1"
    /\ call.result = "ok"
    /\ activeIntentId = "INT-9"
    /\ manifest = MissingManifest

\* Blocked calls: one task with a selected intent writes inside and outside
\* its owned scope while pre-hooks are registered and unregistered; the
\* security hook denies by the ignore list, the scope or the operator, the
\* other pre-hooks allow, deny or throw.
BlockCalls == {<<"write_to_file", WriteParams(p, V2, "INT-1", None)>> : p \in Paths}

BlockOutcomes ==
    {[h \in OtherPreHooks |-> o] : o \in Outcomes}

BlockIgnoreFiles ==
    {MissingIgnore,
     [exists |-> TRUE, raw |-> << <<" ", "INT-1", " ">> >>, mtimeMs |-> 0]}

InitBlock ==
    /\ InitCommon
    /\ activeIntentId = "INT-1"
    /\ manifest = ManifestObject
    /\ ignoreFile \in BlockIgnoreFiles

NextBlock ==
    \/ \E id \in PreHookIds : RegisterPreHook(id)
    \/ \E id \in PreHookIds : UnregisterPreHook(id)
    \/ \E c \in BlockCalls, sel \in {"Approve", "Reject"}, o \in BlockOutcomes :
           Handle(c[1], c[2], GateEnv("none", "none", sel, o))
    \/ WriteCheck(FALSE)
    \/ WriteCommit
    \/ PostHooks(PostEnv(NoOld, "fail", "fail", FALSE, {}))

SpecBlock == InitBlock /\ [][NextBlock]_vars

\* A pre-hook that was executed returned allow = false.
Blocked(c) ==
    \E i \in 1..Len(c.ran) : ~c.res[i].allow /\ ~c.res[i].throws

\* C20: when a pre-hook blocks a tool call, executePreHooks returns false,
\* the tool body does not run and no post-hook runs: the call writes no file,
\* stores no hash and appends nothing to the ledger. The disk and the ledger
\* change only in a call that no pre-hook blocked.
C20_BlockedCallHasNoEffect ==
    /\ [](Blocked(call)
            => /\ ~call.ret
               /\ call.phase = "idle"
               /\ call.result = "none"
               /\ ~call.wrote
               /\ call.postRan = <<>>
               /\ Len(ledger) = call.ledger0)
    /\ [][ /\ Blocked(call) => UNCHANGED <<disk, fileHashes, ledger>>
           /\ (disk' # disk \/ ledger' # ledger)
                => call.ret /\ ~Blocked(call) /\ call.phase \in {"commit", "post"}
         ]_vars

C20_Witness ==
    /\ call.tool = "write_to_file"
    /\ call.params.path = PathSrc
    /\ call.ran = <<SecurityHook, "pre-b">>
    /\ call.gate.allow
    /\ ~call.ret
    /\ Len(ledger) > 0
    /\ Len(ledger) = call.ledger0
    /\ disk[PathSrc] = V2

\* The trace of writes: one task with a selected intent writes a file that
\* HEAD holds with content V1 and a file that HEAD does not hold, with and
\* without a declared mutation class; git answers from HEAD, the ledger
\* append does not fail.
HeadAt(path) == IF toRelativePath(path) = PathSrc THEN Committed(V1) ELSE NoOld

TraceCalls ==
    {<<"write_to_file", WriteParams(p, c, "INT-1", h)>> :
        p \in Paths, c \in Contents, h \in {None, "AST_REFACTOR"}}

InitTrace ==
    /\ InitCommon
    /\ activeIntentId = "INT-1"
    /\ manifest = MissingManifest
    /\ ignoreFile = MissingIgnore

NextTrace ==
    \/ \E c \in TraceCalls, sel \in {"Approve", "Reject"} :
           Handle(c[1], c[2], GateEnv("none", "none", sel, QuietOutcome))
    \/ WriteCheck(FALSE)
    \/ WriteCommit
    \/ PostHooks(PostEnv(HeadAt(call.params.path), "abc123", "main", FALSE, {}))

SpecTrace == InitTrace /\ [][NextTrace]_vars

\* C21: every successful write_to_file that carries an intent_id appends,
\* when no I/O fails, exactly one ledger record, whatever HEAD holds for the
\* file (nothing, the same content, another content); the record carries the
\* call's intent_id, the task id as req_id and as the one related id, the
\* hash of the content written, and the class the classifier returned. A
\* write over a committed content that differs leaves no record: the
\* statement is violated.
C21_EveryWriteTraced ==
    (/\ call.tool = "write_to_file"
     /\ call.result = "ok"
     /\ call.phase = "idle"
     /\ call.postRan = <<TraceHook>>
     /\ call.params.intent_id # None)
      => /\ Len(ledger) = call.ledger0 + 2
         /\ LET e == ledger[Len(ledger) - 1].v IN
            /\ e.intent_id = call.params.intent_id
            /\ e.req_id = TaskId
            /\ e.related = <<TaskId>>
            /\ e.content_hash = generateContentHash(call.params.content)
            /\ e.mutation_class \in MutationClasses
            /\ e.mutation_class =
                 classifyMutationAST(
                     IF HeadAt(call.params.path).ok
                     THEN [ok |-> TRUE, out |-> Trim(HeadAt(call.params.path).out)]
                     ELSE NoOld,
                     call.params.content, call.params.mutation_class)

\* Loading the traces: one task writes files under its intents and selects
\* intents, while .orchestration/agent_trace.jsonl is missing or holds
\* well-formed, blank and malformed lines.
SampleEntry(intentId, content) ==
    JsonStringify(createAgentTraceEntry(
        [reqId |-> TaskId, intentId |-> intentId, filePath |-> PathSrc,
         content |-> content, mutationClass |-> "INTENT_EVOLUTION",
         modelIdentifier |-> ModelId, relatedReqIds |-> <<TaskId>>,
         vcsRevision |-> None, vcsBranch |-> None]))

LoadTraceFiles ==
    { MissingTraces,
      [exists |-> TRUE, tokens |-> <<>>],
      [exists |-> TRUE,
       tokens |-> << JsonToken(SampleEntry("INT-1", V1)), Newline, Newline,
                     JsonToken(SampleEntry("INT-9", V1)), Newline,
                     JsonToken(SampleEntry("INT-1", V2)) >>],
      [exists |-> TRUE,
       tokens |-> << JsonToken(SampleEntry("INT-1", V1)), Newline,
                     Garbage, Newline,
                     JsonToken(SampleEntry("INT-1", V2)), Newline >>] }

LoadCalls ==
    {<<"select_active_intent", SelectParams(<<i>>)>> : i \in IntentIds}
    \cup {<<"write_to_file", WriteParams(PathSrc, c, i, None)>> :
            c \in Contents, i \in IntentIds}

InitLoad ==
    /\ InitCommon
    /\ activeIntentId = "INT-1"
    /\ manifest = ManifestList
    /\ ignoreFile = MissingIgnore

NextLoad ==
    \/ \E c \in LoadCalls :
           Handle(c[1], c[2], GateEnv("none", "none", "Approve", QuietOutcome))
    \/ \E orch \in LoadTraceFiles : SelectActiveIntentExecute(FALSE, orch)
    \/ WriteCheck(FALSE)
    \/ WriteCommit
    \/ PostHooks(PostEnv(NoOld, "fail", "fail", FALSE, {}))

SpecLoad == InitLoad /\ [][NextLoad]_vars

\* C22: a record that appendAgentTrace appended with intent id i is among the
\* traces of the context a later load of i returns, i being in the manifest.
\* The writer appends to .roo/agent_trace.jsonl and the loader reads
\* .orchestration/agent_trace.jsonl: the statement is violated.
C22_AppendedIsLoaded ==
    (/\ call.tool = "select_active_intent"
     /\ call.result = "ok")
      => \A i \in 1..Len(ledger) :
            (ledger[i].t = "json" /\ ledger[i].v.intent_id = activeIntentId)
              => \E j \in 1..Len(call.traces) : call.traces[j] = ledger[i].v

\* The entries of the well-formed lines of a JSON Lines file, in file order.
WellFormedEntries(file) ==
    IF ~file.exists THEN <<>>
    ELSE LET lines == SelectSeq(SplitLines(file.tokens, <<>>), JsonParses)
         IN  [i \in 1..Len(lines) |-> lines[i][1].v]

\* C23: for an intent the manifest lists, the traces of the loaded context
\* are exactly the well-formed lines of the trace file whose intent id is
\* the intent, in file order; a malformed line is skipped and no well-formed
\* line is dropped; a missing file gives an empty list. One malformed line
\* empties the whole list: the statement is violated.
C23_TracesAreWellFormedLines ==
    (/\ call.tool = "select_active_intent"
     /\ call.result = "ok")
      => /\ call.traces = findAgentTraces(WellFormedEntries(call.traceFile),
                                          activeIntentId)
         /\ ~call.traceFile.exists => call.traces = <<>>

\* The classifier on its own: every old content, absent or present, against
\* every new content and every hint. A content is its lines.
FooFile    == <<"foo = () => {", "}">>
FooBarFile == <<"foo = () => {", "}", "bar = () => {", "}">>
FooSpaced  == <<"foo = () => {", " ", "}">>

ClassifyContents == {<<>>, V1, V2, FooFile, FooBarFile, FooSpaced}
ClassifyOlds     == {NoOld} \cup {Committed(c) : c \in ClassifyContents}
ClassifyHints    == {None} \cup MutationClasses

InitClassify ==
    /\ InitCommon
    /\ activeIntentId = None
    /\ manifest = MissingManifest
    /\ ignoreFile = MissingIgnore

NextClassify ==
    \E old \in ClassifyOlds, new \in ClassifyContents, hint \in ClassifyHints :
        ClassifyMutation(old, new, hint)

SpecClassify == InitClassify /\ [][NextClassify]_vars

\* C24: classifying a content against itself gives AST_REFACTOR, for every
\* content, the empty one included, and every hint. The empty content is
\* taken for an absent one and classified INTENT_EVOLUTION: the statement is
\* violated.
C24_SameContentIsRefactor ==
    (/\ call.tool = "classifyMutationAST"
     /\ call.old.ok
     /\ call.old.out = call.params.content)
      => call.result = "AST_REFACTOR"

\* C25: an old content that declares the one function foo against a new
\* content that declares foo and bar is classified INTENT_EVOLUTION, whatever
\* the hint. The classifier throws on every changed content: the statement is
\* violated.
C25_AddedFunctionIsEvolution ==
    (/\ call.tool = "classifyMutationAST"
     /\ call.old = Committed(FooFile)
     /\ call.params.content = FooBarFile)
      => call.result = "INTENT_EVOLUTION"

\* C29: for every old content that is present and differs from the new one,
\* and every hint, the classifier terminates with AST_REFACTOR or
\* INTENT_EVOLUTION, the value of the first matching rule of the ordered
\* list. No rule of the list is reached: the similarity computation throws,
\* and the statement is violated.
C29_ChangedContentGetsAClass ==
    (/\ call.tool = "classifyMutationAST"
     /\ call.old.ok
     /\ call.old.out # <<>>
     /\ call.old.out # call.params.content)
      => call.result \in MutationClasses


\* C26: the lock check of a write_to_file that re-read the file finds it
\* unchanged exactly when no hash is recorded for the path or the recorded
\* hash is the hash of the content read; the first write to a path the task
\* never read is therefore never aborted as stale.
C26_UnchangedIffNoHashOrEqual ==
    (/\ call.tool = "write_to_file"
     /\ call.seen # <<>>)
        => ((call.result # "stale")
                <=> (call.stored = <<>>
                     \/ call.stored = <<generateContentHash(call.seen[1])>>))

C26_Witness ==
    /\ call.tool = "write_to_file"
    /\ call.wrote
    /\ call.stored = <<>>
    /\ call.seen = <<V1>>
    /\ call.before = <<V1>>
    /\ DiskAt(PathSrc) = <<V2>>


\* The scope matcher as a function: it is applied to paths and pattern lists,
\* with wildcard suffixes, backslashes, surrounding blanks, a trailing
\* separator and patterns that strip to nothing.
PathAB    == <<"a", "/", "b">>
PathABC   == <<"a", "/", "b", "/", "c">>
PathABCD  == <<"a", "/", "b", "/", "c", "/", "d">>
PathABc   == <<"a", "/", "b", "c">>
PathBackC == <<"a", "\\", "b", "\\", "c">>
MatchPaths == {PathAB, PathABC, PathABCD, PathABc, PathBackC, <<"a">>, <<>>}

PatDeep   == <<"a", "/", "b", "/", "*", "*">>
MatchPatterns ==
    { PatDeep,
      <<"a", "/", "b", "/", "*">>,
      PathAB,
      <<"a", "/", "b", "/">>,
      <<" ", "a", "/", "b", "/", "*", "*", " ">>,
      <<"a", "\\", "b", "\\", "*", "*">>,
      <<"/", "*", "*">>,
      <<"/", "*">>,
      <<"*", "*">>,
      <<" ">>,
      <<>> }

\* The pattern lists: none, one pattern, two patterns.
MatchScopes ==
    {<<>>} \cup {<<p>> : p \in MatchPatterns}
           \cup {<<p, q>> : p \in MatchPatterns, q \in MatchPatterns}

InitMatch ==
    /\ InitCommon
    /\ activeIntentId = None
    /\ manifest = MissingManifest
    /\ ignoreFile = MissingIgnore

NextMatch ==
    \E relPath \in MatchPaths, ownedScope \in MatchScopes : MatchScope(relPath, ownedScope)

SpecMatch == InitMatch /\ [][NextMatch]_vars

\* The reference rule of the scope matcher, as stated: path and pattern are
\* normalised to forward slashes, one trailing /* or /** is taken off the
\* pattern to get base, and a pattern matches when base is not empty and the
\* path is base or starts with base + "/".
ReferenceBase(pattern) ==
    LET p == SlashNormalize(pattern) IN
    IF Len(p) >= 3 /\ SubSeq(p, Len(p) - 2, Len(p)) = <<"/", "*", "*">>
    THEN SubSeq(p, 1, Len(p) - 3)
    ELSE IF Len(p) >= 2 /\ SubSeq(p, Len(p) - 1, Len(p)) = <<"/", "*">>
    THEN SubSeq(p, 1, Len(p) - 2)
    ELSE p

ReferenceMatches(path, base) ==
    /\ base # <<>>
    /\ \/ path = base
       \/ IsPrefix(base \o <<"/">>, path)

ReferenceWithin(path, patterns) ==
    \E i \in 1..Len(patterns) :
        ReferenceMatches(SlashNormalize(path), ReferenceBase(patterns[i]))

\* The rule with what the matcher does besides: a pattern is trimmed of
\* surrounding blanks first, and a base that ends in "/" is the prefix itself.
TrimmedMatches(path, base) ==
    /\ base # <<>>
    /\ \/ path = base
       \/ IsPrefix(IF base[Len(base)] = "/" THEN base ELSE base \o <<"/">>, path)

TrimmedWithin(path, patterns) ==
    \E i \in 1..Len(patterns) :
        TrimmedMatches(SlashNormalize(path), ReferenceBase(Trim(patterns[i])))

\* C27, as stated: the scope matcher agrees with the reference rule for every
\* path and pattern list.
C27_AgreesWithReference ==
    call.tool = "isPathWithinOwnedScope"
        => call.within = ReferenceWithin(call.params.path, call.declared.v)

\* C27, amended: the scope matcher agrees with the reference rule applied to
\* the trimmed patterns, a base ending in "/" being used as the prefix as it
\* is; a/b/** matches a/b, a/b/c and a/b/c/d but not a/bc, and a pattern whose
\* base is empty matches nothing.
C27_AgreesWithTrimmedReference ==
    call.tool = "isPathWithinOwnedScope"
        => /\ call.within = TrimmedWithin(call.params.path, call.declared.v)
           /\ call.declared.v = <<PatDeep>>
                => (call.within <=> call.params.path \in {PathAB, PathABC, PathABCD, PathBackC})
           /\ (\A i \in 1..Len(call.declared.v) :
                   ReferenceBase(Trim(call.declared.v[i])) = <<>>)
                => ~call.within

C27_Witness ==
    /\ call.tool = "isPathWithinOwnedScope"
    /\ call.declared.v = << <<"/", "*", "*">>, PatDeep >>
    /\ call.params.path = PathABCD
    /\ call.within


\* A step of one tool call: the call record keeps its tool, parameters and
\* what its pre-hooks did, and moves on from the body to the commit, the
\* post-hooks or an error, from the commit to the post-hooks, from the
\* post-hooks to the end.
SameCallGoesOn(c, d) ==
    /\ d.tool = c.tool
    /\ d.params = c.params
    /\ d.intent = c.intent
    /\ d.pre0 = c.pre0
    /\ d.ran = c.ran
    /\ d.ledger0 = c.ledger0
    /\ CASE c.phase = "body"   -> (\/ d.phase \in {"commit", "post"}
                                  \/ (d.phase = "idle" /\ d.result \in {"stale", "error"}))
         [] c.phase = "commit" -> d.phase = "post"
         [] c.phase = "post"   -> (d.phase = "idle" /\ d.result = c.result)
         [] OTHER              -> FALSE

OtherWorkspace == "ws2"

ElsewhereFiles ==
    {[exists |-> TRUE, raw |-> raw, mtimeMs |-> m] : raw \in IgnoreRaws, m \in 0..MaxMtime}

InitCache ==
    /\ InitCommon
    /\ activeIntentId = None
    /\ manifest = MissingManifest
    /\ ignoreFile = MissingIgnore

NextCache ==
    \/ \E i \in IntentIds, f \in IgnoreFaults : IsIntentIgnored(Workspace, ignoreFile, i, f)
    \/ \E file \in ElsewhereFiles, i \in IntentIds :
           IsIntentIgnored(OtherWorkspace, file, i, "none")
    \/ \E raw \in IgnoreRaws, tick \in {0, 1} : IgnoreEdit(raw, tick)
    \/ IgnoreDelete

SpecCache == InitCache /\ [][NextCache]_vars

\* C30, as stated: a check that finds a cache of another mtime or another
\* workspace root answers from the file's current content, a check on a
\* missing file answers false whatever is cached, and the cache serves the
\* answer only when root and mtime are the cached ones.
C30_ChangedFileIsReread ==
    call.tool = "isIntentIgnored"
        => /\ (call.key \in {"mtime", "root"} /\ call.ignore # "missing")
                => (call.result = "ignored" <=> call.listed)
           /\ call.ignore = "missing" => call.result = "not_ignored"
           /\ call.ignore = "stale" => call.key = "hit"

\* C30, amended: the same for a check whose stat and read of the file did not
\* fail, and the cache is then the one of the root asked for; a failing stat
\* or read answers false and leaves the cache as it was.
C30_ChangedFileIsRereadUnlessFault ==
    call.tool = "isIntentIgnored"
        => /\ (call.key # "hit" /\ call.ignore \notin {"missing", "fault"})
                => (call.result = "ignored" <=> call.listed)
           /\ call.ignore \in {"missing", "fault"} => call.result = "not_ignored"
           /\ (call.result = "ignored" /\ ~call.listed) => call.key = "hit"
           /\ (call.result = "not_ignored" /\ call.listed)
                => (call.key = "hit" \/ call.ignore = "fault")
           /\ (call.key # "hit" /\ call.ignore \notin {"missing", "fault"})
                => (ignoreCache.set /\ ignoreCache.workspace = call.root)
           /\ (call.key = "unset" /\ call.ignore \in {"missing", "fault"})
                => ~ignoreCache.set
           /\ (call.key = "root" /\ call.ignore \in {"missing", "fault"})
                => (ignoreCache.set /\ ignoreCache.workspace # call.root)

\* A check answered from the file after another root had filled the cache
\* under the same mtime with other entries.
C30_Witness ==
    /\ call.tool = "isIntentIgnored"
    /\ call.root = Workspace
    /\ call.key = "root"
    /\ call.listed
    /\ call.result = "ignored"
    /\ ignoreCache.workspace = Workspace
    /\ ignoreCache.mtimeMs = ignoreFile.mtimeMs


\* C31: after a write of content c to a path the tracker holds hash(c) for the
\* path, and after a read the hash of the content read; a write is aborted as
\* stale only on content other than the one the tracker holds, so a second
\* write of the task to the path, with no other writer in between, goes on.
C31_TrackerFollowsReadsAndWrites ==
    LET rel == toRelativePath(call.params.path) IN
    /\ (call.tool = "write_to_file" /\ call.wrote)
         => HashAt(rel) = <<generateContentHash(call.params.content)>>
    /\ (call.tool = "read_file" /\ call.result = "ok")
         => (call.seen # <<>> /\ HashAt(rel) = <<generateContentHash(call.seen[1])>>)
    /\ (call.tool = "write_to_file" /\ call.wrote /\ DiskAt(rel) = <<call.params.content>>)
         => isFileUnchanged(fileHashes, rel, disk[rel])
    /\ (call.tool = "write_to_file" /\ call.result = "stale")
         => (call.stored # <<>> /\ call.stored # <<generateContentHash(call.seen[1])>>)

\* A second write of the task going through on the content the first wrote.
C31_Witness ==
    /\ call.tool = "write_to_file"
    /\ call.wrote
    /\ call.ledger0 > 0
    /\ call.stored = <<generateContentHash(V2)>>
    /\ call.seen = <<V2>>
    /\ call.params.content = V1
    /\ HashAt(PathSrc) = <<generateContentHash(V1)>>


\* C32: the trace post-hook run on a write_to_file whose parameters carry no
\* intent_id warns and returns: the ledger is as it was when the call began,
\* nothing failed in the hook, and the call's result and the result sink are
\* as the body left them.
C32_NoIntentIdNoTrace ==
    (/\ call.tool = "write_to_file"
     /\ call.params.intent_id \in {None, ""}
     /\ call.phase = "idle"
     /\ Contains(call.postRan, TraceHook))
        => /\ call.traceWarned
           /\ ~call.traceCaught
           /\ Len(ledger) = call.ledger0
           /\ call.result = "ok"
           /\ sink = call.sink0

C32_Witness ==
    /\ call.tool = "write_to_file"
    /\ call.params.intent_id = None
    /\ call.phase = "idle"
    /\ call.wrote
    /\ call.postRan = <<TraceHook>>
    /\ call.traceWarned
    /\ ledger # <<>>


\* The intent context document: buildIntentContextXml is applied to intent
\* ids, constraints, scopes and trace records whose strings hold the five
\* escaped characters, entity references already written out and text that
\* looks like a tag.
XmlIntentIds == { <<"INT-1">>, <<"a", "&", "\"">>, <<"<", "&", "lt", ";">>, <<"'", ">">> }
XmlConstraints ==
    {Absent} \cup {Some(x) : x \in {<<>>, <<"a">>, <<"<", "a", ">">>, Amp, <<"\"", "'">>}}
XmlScopes ==
    {Absent} \cup {Some(x) : x \in {<<"a">>, <<"&">>, <<"&", "lt", ";", "&">>,
                                      CloseTag("scope")}}

XmlTraceLists ==
    { <<>>,
      << Trace(<<"INT-1">>, Some(<<"&">>), Absent, Absent) >>,
      << Trace(<<"INT-1">>, Absent, Absent, Absent) >>,
      << Trace(<<"INT-1">>, Absent, Some(OpenTag("agent_trace")), Some(<<"a">>)),
         Trace(<<"INT-1">>, Absent, Absent, Some(Amp)) >>,
      << Trace(<<"INT-1">>, Some(<<>>), Some(<<"a">>), Absent),
         Trace(<<"a", "&", "\"">>, Absent, Absent, Absent),
         Trace(<<"INT-1">>, Some(<<"\"", "'">>), Absent, Absent) >> }

InitXml ==
    /\ InitCommon
    /\ activeIntentId = None
    /\ manifest = MissingManifest
    /\ ignoreFile = MissingIgnore

NextXml ==
    \E id \in XmlIntentIds, c \in XmlConstraints, sc \in XmlScopes, ts \in XmlTraceLists :
        RenderIntentContext(id, c, sc, ts)

SpecXml == InitXml /\ [][NextXml]_vars

\* Reading the document back, as an XML parser does: entity references are
\* replaced in one pass, an attribute value ends at the next double quote, a
\* text at the next "<".
EntityNames == {"amp", "lt", "gt", "quot", "apos"}

EntityChar(name) ==
    CASE name = "amp"  -> "&"
      [] name = "lt"   -> "<"
      [] name = "gt"   -> ">"
      [] name = "quot" -> "\""
      [] name = "apos" -> "'"

RECURSIVE UnescapeXml(_)
UnescapeXml(s) ==
    IF s = <<>> THEN <<>>
    ELSE IF Len(s) >= 3 /\ s[1] = "&" /\ s[2] \in EntityNames /\ s[3] = ";"
    THEN <<EntityChar(s[2])>> \o UnescapeXml(SubSeq(s, 4, Len(s)))
    ELSE <<Head(s)>> \o UnescapeXml(Tail(s))

\* The index of the first ch in s, 0 when there is none.
IndexOf(s, ch) ==
    IF \E i \in 1..Len(s) : s[i] = ch
    THEN CHOOSE i \in 1..Len(s) : s[i] = ch /\ \A j \in 1..(i - 1) : s[j] # ch
    ELSE 0

ElementNames == {"constraints", "scope", "agent_trace"}
NoParse == [ok |-> FALSE, id |-> <<>>, elems |-> <<>>]

RECURSIVE ParseElements(_, _)
ParseElements(s, acc) ==
    IF s = <<>> THEN NoParse
    ELSE IF Head(s) \in {" ", "\n"} THEN ParseElements(Tail(s), acc)
    ELSE IF IsPrefix(CloseTag("intent_context"), s)
    THEN [ok |-> s = CloseTag("intent_context"), id |-> <<>>, elems |-> acc]
    ELSE IF Len(s) >= 3 /\ s[1] = "<" /\ s[2] \in ElementNames /\ s[3] = ">"
    THEN LET r == SubSeq(s, 4, Len(s))
             k == IndexOf(r, "<")
         IN  IF k = 0 \/ ~IsPrefix(CloseTag(s[2]), SubSeq(r, k, Len(r))) THEN NoParse
             ELSE ParseElements(SubSeq(r, k + 4, Len(r)),
                                Append(acc, [name |-> s[2],
                                             text |-> UnescapeXml(SubSeq(r, 1, k - 1))]))
    ELSE NoParse

ParseIntentContext(doc) ==
    LET header == <<"<", "intent_context", " ", "id", "=", "\"">> IN
    IF ~IsPrefix(header, doc) THEN NoParse
    ELSE LET r == SubSeq(doc, Len(header) + 1, Len(doc))
             q == IndexOf(r, "\"")
         IN  IF q = 0 \/ q = Len(r) \/ r[q + 1] # ">" THEN NoParse
             ELSE [ParseElements(SubSeq(r, q + 2, Len(r)), <<>>)
                      EXCEPT !.id = UnescapeXml(SubSeq(r, 1, q - 1))]

\* The texts of the elements of one name, in document order.
TextsOf(elems, name) ==
    LET at == SelectSeq(elems, LAMBDA e : e.name = name)
    IN  [i \in 1..Len(at) |-> at[i].text]

\* An optional string as its element list: none for an absent or empty one.
AsTexts(value) == IF Falsy(value) THEN <<>> ELSE value

C34_RecordNamesGatedIntent ==
    (/\ call.tool = "write_to_file"
     /\ call.phase = "idle"
     /\ call.wrote
     /\ Len(ledger) = call.ledger0 + 2)
      => ledger[Len(ledger) - 1].v.intent_id = call.intent


\* The ledger and the tools: one task writes, edits, reads, runs commands and
\* selects intents, every call carrying an intent_id in its parameters, while
\* another writer writes the file and the ledger append fails or not.
WithIntent(intent_raw) == Params(PathSrc, V2, "INT-1", None, intent_raw)

LedgerCalls ==
    {<<"write_to_file", WriteParams(PathSrc, c, "INT-1", None)>> : c \in Contents}
    \cup {<<"select_active_intent", WithIntent(<<i>>)>> : i \in IntentIds}
    \cup {<<t, WithIntent(<<>>)>> : t \in {"edit_file", "execute_command", "read_file"}}

InitLedger ==
    /\ InitCommon
    /\ activeIntentId = "INT-1"
    /\ manifest = ManifestList
    /\ ignoreFile = MissingIgnore

NextLedger ==
    \/ \E c \in LedgerCalls, sel \in {"Approve", "Reject"} :
           Handle(c[1], c[2], GateEnv("none", "none", sel, QuietOutcome))
    \/ SelectActiveIntentExecute(FALSE, MissingTraces)
    \/ ReadFileExecute
    \/ \E readFault \in BOOLEAN : WriteCheck(readFault)
    \/ WriteCommit
    \/ EditFileExecute
    \/ ExecuteCommandExecute
    \/ \E a \in BOOLEAN : PostHooks(PostEnv(NoOld, "abc123", "main", a, {}))
    \/ \E c \in Contents : ExternalWrite(PathSrc, c)

SpecLedger == InitLedger /\ [][NextLedger]_vars

\* C35: the ledger changes only in the post-hooks of a write_to_file whose
\* body wrote the file, by one line appended; a call of any other tool ends
\* with the ledger as it found it.
C35_LedgerGrowsByWritesOnly ==
    [][/\ ledger' # ledger
          => /\ call.tool = "write_to_file"
             /\ call.phase = "post"
             /\ call.wrote
             /\ call.result = "ok"
             /\ call'.phase = "idle"
             /\ \E e \in {ledger'[Len(ledger') - 1]} :
                    /\ e.t = "json"
                    /\ e.v.content_hash = generateContentHash(call.params.content)
                    /\ ledger' = ledger \o <<e, Newline>>
       /\ call'.tool # "write_to_file" => Len(ledger') = call'.ledger0]_vars

\* An edit_file call carrying an intent_id that went through the trace
\* post-hook after a write had been traced, and left the ledger alone.
C35_Witness ==
    /\ call.tool = "edit_file"
    /\ call.params.intent_id = "INT-1"
    /\ call.phase = "idle"
    /\ call.wrote
    /\ call.postRan = <<TraceHook>>
    /\ ledger # <<>>
    /\ Len(ledger) = call.ledger0


\* C36, as stated: every call the pre-hooks block leaves exactly one error
\* payload in the result sink, and a call they allow leaves none.
C36_BlockedPushesOne ==
    /\ (call.tool = "write_to_file" /\ ~call.ret)
         => (Len(sink) = 1 /\ sink[1].type = "tool_error")
    /\ (call.tool = "write_to_file" /\ call.ret /\ call.phase = "body")
         => sink = <<>>

\* C36, amended: a call the security pre-hook blocks leaves exactly one error
\* payload, the one the middleware pushed; a call another pre-hook blocks
\* leaves the error that hook returned, and nothing when it returned none; a
\* call the pre-hooks allow leaves nothing.
C36_SecurityBlockPushesOne ==
    /\ (call.tool = "write_to_file" /\ ~call.ret)
         => LET n == Len(call.ran) IN
            IF call.ran[n] = SecurityHook
            THEN /\ Len(sink) = 1
                 /\ sink = call.gate.pushed
                 /\ sink[1].type = "tool_error"
                 /\ sink[1].tool = call.tool
                 /\ sink[1].reason \in {"intent_ignored", "scope_violation", "user_rejected"}
            ELSE sink = (IF call.res[n].error # NoError THEN <<call.res[n].error>> ELSE <<>>)
    /\ (call.tool = "write_to_file" /\ call.ret /\ call.phase = "body")
         => sink = <<>>

\* A write outside the scope blocked by the security hook after another
\* pre-hook had allowed it.
C36_Witness ==
    /\ call.tool = "write_to_file"
    /\ ~call.ret
    /\ Len(call.ran) = 2
    /\ call.ran[2] = SecurityHook
    /\ call.gate.step = "scope"
    /\ Len(sink) = 1
    /\ sink[1].reason = "scope_violation"


\* The decision of the security pre-hook run again, on the cache the first
\* run d left and the same inputs and environment.
RunAgain(tool, params, env, d) ==
    enforceToolSecurityPreHook(tool, params, activeIntentId, ignoreFile, d.cache,
                               manifest, env)

SameDecision(d, e) ==
    /\ e.allow = d.allow
    /\ e.pushed = d.pushed
    /\ e.step = d.step
    /\ e.cache = d.cache

RunsTwiceAlike(tool, params, env) ==
    LET d == enforceToolSecurityPreHook(tool, params, activeIntentId, ignoreFile,
                                        ignoreCache, manifest, env)
    IN  SameDecision(d, RunAgain(tool, params, env, d))

IgnoreEnvs ==
    {GateEnv(f, "none", sel, QuietOutcome) : f \in IgnoreFaults, sel \in {"Approve", "throws"}}

\* The step of a call through its pre-hooks leaves the active intent, the
\* hash tracker, the ledger, the manifest, the workspace files and the hook
\* lists as they were.
PreHooksKeepState ==
    (call.phase = "idle" /\ call' # call)
        => UNCHANGED <<activeIntentId, fileHashes, ledger, manifest, disk, ignoreFile,
                       preHooks, postHooks>>

DecidedAheadOfFallback(oldContent, newContent) ==
    \/ ~oldContent.ok
    \/ oldContent.out = newContent
    \/ (oldContent = Committed(FooFile) /\ newContent = FooBarFile)

\* C38: on a pair that a rule ahead of the final fallback decides, the
\* classifier returns one class, the same for the hint AST_REFACTOR, the hint
\* INTENT_EVOLUTION and no hint. On the pair with the added function the
\* classifier throws for every hint and returns no class: the statement is
\* violated.
C38_HintCannotOverrideVerdict ==
    (/\ call.tool = "classifyMutationAST"
     /\ DecidedAheadOfFallback(call.old, call.params.content))
      => /\ call.result \in MutationClasses
         /\ \A hint \in ClassifyHints :
                classifyMutationAST(call.old, call.params.content, hint) = call.result


\* ---- logAgentTrace: two calls interleaved on every shape of the file.
LoggerIds == {"first", "second"}

LogParams(intentId, filePath, content, timestamp, modelIdentifier) ==
    [intentId |-> intentId, filePath |-> filePath, content |-> content,
     timestamp |-> timestamp, modelIdentifier |-> modelIdentifier]

LoggerParams(i) ==
    {LogParams(id, f, c, <<i>>, m) :
        id \in {<<>>, <<"INT-1">>}, f \in {PathSrc}, c \in {V1, <<>>},
        m \in {Absent, Some(<<"model">>)}}
    \cup {LogParams(<<"INT-1">>, NoPath, V1, <<i>>, Absent)}

OldEntry == AgentTraceEntry(LogParams(<<"INT-0">>, PathDocs, V2, <<"old">>, Absent))

OtherKey(key, items) == [key |-> key, items |-> items]

\* The traces file at the start: missing, an array, a mapping with a traces
\* array alone or beside another key, a mapping that keeps its entries under
\* another key, an empty file, and a text that is no YAML.
InitialTraceFiles ==
    {YamlStringify(YamlSeq(<<>>)),
     YamlStringify(YamlSeq(<<OldEntry>>)),
     YamlStringify(YamlMap(<<<<OldEntry>>>>, {})),
     YamlStringify(YamlMap(<<<<OldEntry>>>>, {OtherKey("version", <<>>)})),
     YamlStringify(YamlMap(<<>>, {OtherKey("entries", <<OldEntry>>)})),
     YamlStringify(NoDocument),
     [valid |-> FALSE, document |-> NoDocument]}

\* The entries a document holds, under whatever key.
EntriesOf(document) ==
    {document.items[k] : k \in
        IF document.kind = "seq" THEN 1..Len(document.items) ELSE {}}
    \cup (IF document.kind = "map" /\ document.items # <<>>
          THEN {document.items[1][k] : k \in 1..Len(document.items[1])} ELSE {})
    \cup UNION {{r.items[k] : k \in 1..Len(r.items)} : r \in document.rest}

EntriesOnDisk ==
    IF TracesYaml \in DOMAIN disk THEN EntriesOf(YamlParse(disk[TracesYaml]).document)
    ELSE {}

InitYaml ==
    /\ preHooks = <<SecurityHook>>
    /\ postHooks = <<TraceHook>>
    /\ activeIntentId = None
    /\ manifest = MissingManifest
    /\ ignoreFile = MissingIgnore
    /\ ignoreCache = NoCache
    /\ fileHashes = <<>>
    /\ ledger = <<>>
    /\ sink = <<>>
    /\ \/ disk = <<>>
       \/ \E raw \in InitialTraceFiles : disk = [p \in {TracesYaml} |-> raw]
    /\ call = [NoCall EXCEPT !.loggers = [i \in LoggerIds |-> NoLogger],
                             !.entries0 = EntriesOnDisk]

NextYaml ==
    \/ \E i \in LoggerIds, readFault \in BOOLEAN :
           \E params \in LoggerParams(i) : LogAgentTraceRead(i, params, readFault)
    \/ \E i \in LoggerIds : LogAgentTraceWrite(i)

SpecYaml == InitYaml /\ [][NextYaml]_vars

\* C39: the traces file holds the entry of every logAgentTrace call that has
\* written, and every entry it held at the start, whatever the order of the
\* reads and the rewrites of the calls and whatever the shape of the file at
\* the start. A call that read before another one wrote rewrites the file
\* without the other's entry, and a file that is no array and has no traces
\* array is replaced: the statement is violated.
C39_NoEntryLost ==
    /\ \A i \in LoggerIds :
           call.loggers[i].pc = "written" => call.loggers[i].entry[1] \in EntriesOnDisk
    /\ call.entries0 \subseteq EntriesOnDisk

=============================================================================
